---------------------------- MODULE Spec2Model ----------------------------
(***************************************************************************)
(* State-machine model of the creative-suite front end: the App shell      *)
(* (library, subscription tier, settings, toasts, local storage), the      *)
(* ImageTools and VideoGenerator components with their asynchronous        *)
(* handlers, the video polling routine of the service wrapper, and the     *)
(* Profile usage view.                                                     *)
(*                                                                         *)
(* Strings typed by the user are abstracted to "" / "p"; media are         *)
(* abstracted to the URL scheme they are delivered under (a data: URL is   *)
(* self-contained, a blob: URL belongs to the page load that created it).  *)
(***************************************************************************)
EXTENDS Integers, Sequences, FiniteSets, TLC

(* ------------------------------ bounds -------------------------------- *)
\* most items the library holds when a generation request is started
MaxLib == 2
\* most items the library holds when a request on the displayed image
\* (enhance, variations) is started
MaxFollowUp == 3
\* most toasts on screen at once (older ones have been auto-dismissed)
MaxToasts == 1
\* most requests that outlive the component that started them
MaxOrphans == 1
\* most page reloads
MaxReloads == 1
\* largest value Date.now() takes (ids of library items)
MaxTime == 1
\* longest library handed to the Profile view in ProfileSpec
MaxProfileLib == 6

(* ------------------------- program constants -------------------------- *)
FreeImageLimit == 50
FreeVideoLimit == 5
SilverImageLimit == 200
SilverVideoLimit == 20
GoldenImageLimit == 1000
GoldenVideoLimit == 100
DiamondImageLimit == 5000
DiamondVideoLimit == 500
VariationCount == 4

Tiers == {"free", "silver", "golden", "diamond"}
Modes == {"IMAGE", "VIDEO", "AUDIO", "LIBRARY", "PROFILE", "SETTINGS", "PREMIUM"}

\* what activeMode holds in the model once a render has thrown: there is no
\* error boundary, so React unmounts the whole tree and no view is mounted
\* until the page is loaded again
RootUnmounted == "unmounted"
Themes == {"studio-dark", "crimson", "cyberpunk"}
\* 'none' and one of the four moods that ask for a soundtrack
AudioMoods == {"none", "epic"}

tierLevels == [free |-> 0, silver |-> 1, golden |-> 2, diamond |-> 3]

defaultSettings ==
  [theme |-> "studio-dark",
   notifications |-> [generationComplete |-> TRUE, promotions |-> TRUE]]

(* ------------------------------ messages ------------------------------ *)
\* what a rejected promise carries: an Error with a message, or a non-Error
ApiError == "API error"
NonError == "<non-Error value>"
Rejections == {ApiError, NonError}
NoLinkError == "Video generation failed or did not return a valid link."
DownloadError == "Failed to download the generated video."
UnknownError == "An unknown error occurred."
EnhanceFailed == "Enhance failed."
VariationFailed == "Variation generation failed."
SavedMsg == "Saved to Library!"
ImageEnhancedMsg == "Image enhanced successfully!"
VideoEnhancedMsg == "Video enhanced successfully!"
VariationsMsg == "Variations generated!"
DeletedMsg == "Item deleted from library."
ClearedMsg == "Creative Library has been cleared."
SubscribedMsg == "Successfully subscribed to the plan!"
ImportedMsg == "Settings imported successfully!"
InvalidFormatMsg == "Invalid settings file format."
\* the message of the SyntaxError JSON.parse throws
JsonSyntaxError == "Unexpected token"
FxFailed == "Sound effect generation failed."
AudioEnhanceFailed == "Audio enhancement failed."
FxGeneratedMsg == "Sound effect generated!"
AudioEnhancedMsg == "Audio enhanced successfully!"

(* ------------------------------ requests ------------------------------ *)
Kinds == {"imgSubmit", "imgEnhance", "imgVariations", "vidSubmit", "vidEnhance",
          "audFx", "audEnhance"}
ImageKinds == {"imgSubmit", "imgEnhance", "imgVariations"}
VideoKinds == {"vidSubmit", "vidEnhance"}
AudioKinds == {"audFx", "audEnhance"}

\* JavaScript values that travel as a seed
Undefined == [type |-> "undefined"]
JsNumber(n) == [type |-> "number", value |-> n]
JsString(s) == [type |-> "string", text |-> s]

\* the config of a generateImages request; NoConfig: no such request sent
NoConfig ==
  [prompt |-> <<>>, numberOfImages |-> 0, aspectRatio |-> "", seed |-> Undefined]

\* pc      where the handler is suspended
\* done    the done flag of the last operation object the poll loop holds
\* audio   the soundtrack promise: "idle" (not created), "none"
\*         (Promise.resolve(null)), "pending", "resolved"
\* count   transformImage calls of a variations request that have resolved
\* notify  settings.notifications.generationComplete as captured by the
\*         onSaveToLibrary closure the handler was created with
\* mode    the tool mode the handler closed over; for an audio enhancement
\*         the enhancement mode it closed over
\* mood    the audio mood the handler closed over
\* sel     the selectedImage the handler closed over
\* batch   the batchSize the handler closed over
\* sent    the config of the generateImages request the handler sent
NoReq == [kind |-> "none", pc |-> "none", done |-> FALSE, audio |-> "idle",
          arrived |-> <<>>, after |-> -1, notify |-> FALSE, mode |-> "", mood |-> "none",
          sel |-> "null", batch |-> 1, sent |-> NoConfig]

\* the last handler continuation that ran.  what: "resolve" (the handler
\* ran to the end of its try block) or "reject" (a promise it awaited
\* rejected); req: the request as it was when the continuation ran; live:
\* its component was still mounted; msg: the message of the rejection as the
\* handler words it; inflight: the requests in flight before it ran;
\* ntoasts, nsaved: toasts and library items the continuation added
NoEvent == [what |-> "none", req |-> NoReq, live |-> FALSE, msg |-> "",
            inflight |-> 0, ntoasts |-> 0, nsaved |-> 0]

VARIABLES
  activeMode,        \* App: the mounted view
  libraryItems,      \* App: newest first
  subscriptionTier,  \* App
  toasts,            \* App
  showUpgradeModal,  \* App: the "Upgrade Required" modal is on screen
  settings,          \* App
  localStorage,      \* browser storage: the three creative-suite-* keys
  console,           \* keys whose failed write is in this page's error log
  storageFull,       \* browser storage is at its quota: setItem may throw
  session,           \* number of the current page load
  image,             \* state of the mounted ImageTools
  video,             \* state of the mounted VideoGenerator
  audio,             \* state of the mounted AudioTools
  live,              \* requests of the mounted component, by handler
  orphans,           \* requests whose component has been unmounted
  event,             \* history: the last handler continuation
  profile,           \* what the Profile view shows
  built              \* a call of a prompt builder: arguments and result

vars == <<activeMode, libraryItems, subscriptionTier, toasts,
          showUpgradeModal, settings, localStorage, console, storageFull,
          session, image, video, audio, live, orphans, event, profile, built>>

(* ------------------------------ helpers ------------------------------- *)
Min(a, b) == IF a < b THEN a ELSE b

Last(s) == s[Len(s)]

RemoveAt(s, i) == [j \in 1..(Len(s) - 1) |-> IF j < i THEN s[j] ELSE s[j + 1]]

RECURSIVE SelectSeqBy(_, _)
\* Array.prototype.filter with the predicate "id differs from itemId"
SelectSeqBy(s, itemId) ==
  IF s = <<>> THEN <<>>
  ELSE IF Head(s).id # itemId
       THEN <<Head(s)>> \o SelectSeqBy(Tail(s), itemId)
       ELSE SelectSeqBy(Tail(s), itemId)

RECURSIVE CountType(_, _)
\* libraryItems.filter(item => item.type === t).length
CountType(s, t) ==
  IF s = <<>> THEN 0
  ELSE (IF Head(s).type = t THEN 1 ELSE 0) + CountType(Tail(s), t)

\* media URLs: a data: URL carries its bytes; URL.createObjectURL gives a
\* blob: URL that names an object of the page load that created it
DataUrl == [scheme |-> "data", origin |-> 0]
BlobUrl(sess) == [scheme |-> "blob", origin |-> sess]
Null == [scheme |-> "null", origin |-> 0]

\* url[0] where url is a string: its first character, "d" for a data: URL;
\* as the src of an image it is a relative URL that names no image
FirstCharacter(url) == [scheme |-> "relative", origin |-> 0]

\* the variations property of a library item: left out, an array of
\* length images, or a string (url.slice(1), the rest of a data: URL)
NoVariations == [type |-> "absent"]
ArrayOf(length) == [type |-> "array", length |-> length]
RestOfString == [type |-> "string"]

\* whether a URL can still be dereferenced in page load sess
MediaAvailable(src, sess) ==
  \/ src.scheme = "data"
  \/ src.scheme = "blob" /\ src.origin = sess

(* ------------------------------ storage ------------------------------- *)
StorageKeys == {"library", "tier", "settings"}

\* JSON.stringify of one library item: a property whose value is undefined
\* is left out
JsonItem(item) ==
  [item EXCEPT !.audioSrc = IF @ = "undefined" THEN "absent" ELSE @]

\* JSON.stringify(libraryItems); JSON.parse gives the same value back
JsonLibrary(items) == [i \in 1..Len(items) |-> JsonItem(items[i])]

\* Persist with the library effect left out (sensitivity of C7)
PersistWithoutLibrary(store, changed, failing, lib, tier, set) ==
  [library  |-> store.library,
   tier     |-> IF "tier" \in changed \ failing THEN tier ELSE store.tier,
   settings |-> IF "settings" \in changed \ failing
                THEN set ELSE store.settings]

\* the effects of App that write the three keys: each runs when its
\* dependency changed, and a write that throws is caught and logged
Persist(store, changed, failing, lib, tier, set) ==
  [library  |-> IF "library" \in changed \ failing
                THEN JsonLibrary(lib) ELSE store.library,
   tier     |-> IF "tier" \in changed \ failing THEN tier ELSE store.tier,
   settings |-> IF "settings" \in changed \ failing
                THEN set ELSE store.settings]

\* addToast; a toast beyond MaxToasts takes the place of the oldest one,
\* whose dismiss timer has run out
addToast(ts, type, message) ==
  LET t == [type |-> type, message |-> message]
  IN  IF Len(ts) < MaxToasts THEN Append(ts, t) ELSE Append(Tail(ts), t)


(* --------------------------- Profile view ----------------------------- *)
tierDetails ==
  [free    |-> [imageLimit |-> FreeImageLimit, videoLimit |-> FreeVideoLimit],
   silver  |-> [imageLimit |-> SilverImageLimit, videoLimit |-> SilverVideoLimit],
   golden  |-> [imageLimit |-> GoldenImageLimit, videoLimit |-> GoldenVideoLimit],
   diamond |-> [imageLimit |-> DiamondImageLimit, videoLimit |-> DiamondVideoLimit]]

\* StatCard without the cap of the bar width (sensitivity of C10)
StatCardUncapped(value, limit) ==
  [value |-> value, limit |-> limit, width |-> (value * 100) \div limit]

\* StatCard: "value / limit" and the width of the bar in percent,
\* Math.min(100, (value / limit) * 100), here rounded down to a whole percent
StatCard(value, limit) ==
  [value |-> value, limit |-> limit,
   width |-> Min(100, (value * 100) \div limit)]

\* Profile: the two usage cards computed from its props
Profile(tier, items) ==
  [images |-> StatCard(CountType(items, "IMAGE"), tierDetails[tier].imageLimit),
   videos |-> StatCard(CountType(items, "VIDEO"), tierDetails[tier].videoLimit)]

NoProfile == [images |-> StatCard(0, 1), videos |-> StatCard(0, 1)]

\* renderContent: the Profile view exists only in PROFILE mode
renderContent(mode, tier, items) ==
  IF mode = "PROFILE" THEN Profile(tier, items) ELSE NoProfile

(* ------------------------- the option lists --------------------------- *)
\* the tier an option asks for; "free" stands for an option that is not
\* gated, or gated with 'free'
\* aspectRatios of both tools: premium ratios go through
\* handlePremiumFeature('golden', ...), the others are set directly
aspectRatios ==
  ("1:1" :> "free") @@ ("16:9" :> "golden") @@ ("9:16" :> "golden") @@
  ("4:3" :> "free") @@ ("3:4" :> "free")

\* personas of ImageTools
imagePersonas ==
  ("none" :> "free") @@ ("photographer" :> "free") @@
  ("illustrator" :> "silver") @@ ("concept-artist" :> "silver") @@
  ("wildlife-photographer" :> "golden") @@ ("sci-fi-artist" :> "golden") @@
  ("food-photographer" :> "diamond") @@ ("architectural-designer" :> "diamond")

\* personas of VideoGenerator
videoPersonas ==
  ("none" :> "free") @@ ("cinematographer" :> "silver") @@
  ("vfx-artist" :> "golden") @@ ("concept-artist" :> "golden") @@
  ("wildlife-photographer" :> "diamond") @@ ("sci-fi-artist" :> "diamond")

videoDurations ==
  ("short" :> "free") @@ ("medium" :> "silver") @@ ("long" :> "golden") @@
  ("one-minute" :> "diamond") @@ ("three-minute" :> "diamond")

videoFPSs == (24 :> "free") @@ (30 :> "golden") @@ (60 :> "golden")

videoQualities == ("standard" :> "free") @@ ("high" :> "golden")

\* enhancementModes of AudioTools
enhancementModes ==
  ("noise-reduction" :> "silver") @@ ("speech-enhancement" :> "golden") @@
  ("sound-isolation" :> "diamond")

intensities == {"subtle", "balanced", "strong"}

batchSizes == 1..4

\* what the Seed input can hold: nothing, or the digits of a number
Seeds == {"", "0", "7"}

(* ------------------------ the prompt builders ------------------------- *)
\* A prompt is a sequence of pieces.  Ch(c): one character of text the user
\* typed, or of the white space of a template; Lit(t, v): a phrase of a
\* template, t naming the instruction and v the option it was filled with
Ch(c) == [t |-> "char", v |-> c]
Lit(t, v) == [t |-> t, v |-> v]
SP == Ch(" ")
NL == Ch("\n")
Quote == Ch("\"")
Dot == Ch(".")

\* \s of a regular expression, and the characters trim() removes
IsSpace(piece) == piece \in {SP, NL}

RECURSIVE TrimStart(_)
TrimStart(s) ==
  IF s # <<>> /\ IsSpace(Head(s)) THEN TrimStart(Tail(s)) ELSE s

RECURSIVE TrimEnd(_)
TrimEnd(s) ==
  IF s # <<>> /\ IsSpace(Last(s)) THEN TrimEnd(SubSeq(s, 1, Len(s) - 1)) ELSE s

\* String.prototype.trim
Trim(s) == TrimEnd(TrimStart(s))

RECURSIVE CollapseSpace(_)
\* s.replace(/\s+/g, ' '): every run of white space becomes one space
CollapseSpace(s) ==
  IF s = <<>> THEN <<>>
  ELSE IF IsSpace(Head(s))
  THEN <<SP>> \o CollapseSpace(TrimStart(s))
  ELSE <<Head(s)>> \o CollapseSpace(Tail(s))

\* name.replace('-', ' ') for the option names that hold a hyphen
Hyphenated ==
  ("3d-render" :> "3d render") @@ ("pixel-art" :> "pixel art") @@
  ("zoom-in" :> "zoom in") @@ ("zoom-out" :> "zoom out") @@
  ("drone-shot" :> "drone shot") @@ ("close-up" :> "close up") @@
  ("medium-shot" :> "medium shot") @@ ("long-shot" :> "long shot") @@
  ("cinematic-tension" :> "cinematic tension")

ReplaceHyphen(name) == IF name \in DOMAIN Hyphenated THEN Hyphenated[name] ELSE name

\* `${fps}`
FpsText == (24 :> "24") @@ (30 :> "30") @@ (60 :> "60")

\* personaInstructions[persona]: every persona, 'none' too, has a phrase
personaInstructions(persona) == <<Lit("As a", persona)>>

\* intensityMap[styleIntensity]
intensityMap(intensity) == Lit("with ... of the specified style.", intensity)

\* prompts.map(p => `"${p}"`).join(' and ')
RECURSIVE JoinQuoted(_)
JoinQuoted(prompts) ==
  IF Len(prompts) = 1 THEN <<Quote>> \o prompts[1] \o <<Quote>>
  ELSE <<Quote>> \o prompts[1] \o <<Quote, SP, Lit("and", ""), SP>> \o
       JoinQuoted(Tail(prompts))

BlendInstruction ==
  Lit("expertly blend the following distinct concepts into a single image:", "")

\* constructImagePrompt(prompts, style, negativePrompt, language, persona,
\* styleIntensity)
constructImagePrompt(prompts, style, negativePrompt, language, persona, styleIntensity) ==
  LET languageInstruction ==
        IF language = "kinyarwanda"
        THEN <<Lit("The user is providing the prompt in Kinyarwanda", "image")>>
        ELSE <<>>
      styleInstruction ==
        IF style # "none"
        THEN <<Lit("Style:", ReplaceHyphen(style)), Dot, SP,
               Lit("Style Intensity:", ""), SP, intensityMap(styleIntensity)>>
        ELSE <<>>
      negativeInstruction ==
        IF negativePrompt # <<>>
        THEN <<Lit("Avoid the following:", ""), SP>> \o negativePrompt \o <<Dot>>
        ELSE <<>>
      mainPrompt ==
        IF Len(prompts) > 1
        THEN <<BlendInstruction, SP>> \o JoinQuoted(prompts) \o <<Dot>>
        ELSE <<Lit("create the following image:", ""), SP>> \o prompts[1] \o <<Dot>>
  IN  Trim(personaInstructions(persona) \o <<SP>> \o mainPrompt \o <<SP>> \o
           languageInstruction \o <<SP>> \o styleInstruction \o <<SP>> \o
           negativeInstruction)

\* a quality instruction that is always written
QualityAlways(quality) == <<Lit("Output Quality: Aim for 8K resolution", "")>>

\* qualityInstruction of constructVideoPrompt
qualityInstruction(quality) ==
  IF quality = "high" THEN <<Lit("Output Quality: Aim for 8K resolution", "")>>
  ELSE <<>>

\* the end of a line of the template of constructVideoPrompt and the
\* indentation of the next
Break == <<NL, SP, SP, SP, SP>>

\* constructVideoPrompt(prompt, style, negativePrompt, duration,
\* cameraMovement, quality, language, framing, persona, loop, aspectRatio,
\* fps, motionIntensity, audioMood)
constructVideoPrompt(prompt, style, negativePrompt, duration, cameraMovement, quality, language, framing, persona, loop, aspectRatio, fps, motionIntensity, audioMood) ==
  LET languageInstruction ==
        IF language = "kinyarwanda"
        THEN <<Lit("The user is providing the prompt in Kinyarwanda", "video")>>
        ELSE <<>>
      styleInstruction ==
        IF style # "none" THEN <<Lit("Visual Style:", style), Dot>> ELSE <<>>
      negativeInstruction ==
        IF negativePrompt # <<>>
        THEN <<Lit("Crucially, avoid the following elements:", ""), SP>> \o
             negativePrompt \o <<Dot>>
        ELSE <<>>
      durationInstruction == <<Lit("Duration Goal:", duration), Dot>>
      cameraInstruction ==
        IF cameraMovement # "none"
        THEN <<Lit("Camera Movement: A", motionIntensity), SP,
               Lit("movement", ReplaceHyphen(cameraMovement)), Dot>>
        ELSE <<>>
      framingInstruction ==
        IF framing # "none"
        THEN <<Lit("Shot Framing: Use a", ReplaceHyphen(framing)), Dot>>
        ELSE <<>>
      loopInstruction ==
        IF loop THEN <<Lit("The video must be a perfect, seamless loop.", "")>>
        ELSE <<>>
      aspectInstruction ==
        <<Lit("Aspect Ratio: The final video must be in", aspectRatio)>>
      fpsInstruction ==
        <<Lit("Frame Rate: The video must be rendered at", FpsText[fps])>>
      audioInstruction ==
        IF audioMood # "none"
        THEN <<Lit("The overall mood of the scene should be appropriate for a soundtrack that is",
                   ReplaceHyphen(audioMood)), Dot>>
        ELSE <<>>
      finalPrompt ==
        personaInstructions(persona) \o
        <<SP, Lit("create a video based on this scene:", ""), SP, Quote>> \o
        prompt \o <<Quote, Dot, SP>> \o Break \o
        languageInstruction \o Break \o
        styleInstruction \o <<SP>> \o Break \o
        cameraInstruction \o Break \o
        framingInstruction \o Break \o
        durationInstruction \o Break \o
        qualityInstruction(quality) \o Break \o
        aspectInstruction \o Break \o
        fpsInstruction \o Break \o
        audioInstruction \o Break \o
        negativeInstruction \o Break \o
        loopInstruction
  IN  Trim(CollapseSpace(finalPrompt))

\* no builder has been called
NoCall == [builder |-> "none", done |-> FALSE]

(* ------------------------- component states --------------------------- *)
\* useState initial values of ImageTools
ImageInit ==
  [mode |-> "text-to-image", prompts |-> <<"">>, imageFile |-> FALSE,
   generatedImages |-> <<>>, selectedImage |-> "null", variations |-> <<>>,
   isLoading |-> FALSE, isEnhancing |-> FALSE,
   isGeneratingVariations |-> FALSE, error |-> "null", lastSettings |-> FALSE,
   persona |-> "none", aspectRatio |-> "1:1", seed |-> "",
   styleIntensity |-> "balanced", negativeIntensity |-> "balanced",
   batchSize |-> 1]

\* useState initial values of VideoGenerator
VideoInit ==
  [mode |-> "text-to-video", prompt |-> "", imageFile |-> FALSE,
   audioMood |-> "none", generatedVideo |-> Null, generatedAudio |-> "null",
   isLoading |-> FALSE, isEnhancing |-> FALSE, error |-> "null",
   lastSettings |-> FALSE,
   duration |-> "short", quality |-> "standard", persona |-> "cinematographer",
   aspectRatio |-> "1:1", fps |-> 24]

\* useState initial values of AudioTools
AudioInit ==
  [mode |-> "speech-to-text", fxPrompt |-> "", isGeneratingFx |-> FALSE,
   generatedFx |-> "null", fxError |-> "null", enhancementFile |-> FALSE,
   enhancementMode |-> "noise-reduction", isEnhancing |-> FALSE,
   enhancedAudio |-> "null", enhancementError |-> "null"]

LiveKinds == {k \in Kinds : live[k] # NoReq}

InFlight == Cardinality(LiveKinds) + Len(orphans)

\* the time of the newest of items, -1 if there is none
LatestId(items) ==
  IF items = <<>> THEN -1
  ELSE CHOOSE t \in {items[i].id : i \in 1..Len(items)} :
         \A i \in 1..Len(items) : items[i].id <= t

\* Date.now() at the save of the request r: not before the time of any item
\* already saved, and later than the items that were in the library when r
\* was started, the service call of r having taken its time since
Now(r) ==
  {t \in 0..MaxTime : /\ r.after < t
                      /\ \A i \in 1..Len(libraryItems) : libraryItems[i].id <= t}

(* --------------------------- App: commits ----------------------------- *)
\* one render of App after state updates: the new library, tier and
\* settings, and the persistence effects whose dependency changed
Commit(lib, tier, set, changed, failing) ==
  /\ libraryItems' = lib
  /\ subscriptionTier' = tier
  /\ settings' = set
  /\ localStorage' = Persist(localStorage, changed, failing, lib, tier, set)
  /\ console' = console \cup (changed \cap failing)

NoCommit ==
  UNCHANGED <<libraryItems, subscriptionTier, settings, localStorage, console>>

\* the writes that can throw in this step
Failing(changed) == IF storageFull THEN SUBSET changed ELSE {{}}

Rendered ==
  /\ profile' = renderContent(activeMode', subscriptionTier', libraryItems')
  /\ UNCHANGED <<storageFull, built>>

(* ------------------------------- Init --------------------------------- *)
\* App after its load effect and the render that follows it, on a page
\* whose storage holds lib, tier and set, with the view mode mounted
MountedApp(mode, lib, tier, set) ==
  /\ activeMode = mode
  /\ libraryItems = lib
  /\ subscriptionTier = tier
  /\ toasts = <<>>
  /\ showUpgradeModal = FALSE
  /\ settings = set
  /\ localStorage = [library |-> JsonLibrary(lib), tier |-> tier, settings |-> set]
  /\ console = {}
  /\ storageFull = FALSE
  /\ session = 1
  /\ image = ImageInit
  /\ video = VideoInit
  /\ audio = AudioInit
  /\ live = [k \in Kinds |-> NoReq]
  /\ orphans = <<>>
  /\ event = NoEvent
  /\ profile = renderContent(mode, tier, lib)

\* the same, no prompt builder called
Mounted(mode, lib, tier, set) == MountedApp(mode, lib, tier, set) /\ built = NoCall

\* the first visit: nothing stored, useState initial values
Init == Mounted("IMAGE", <<>>, "free", defaultSettings)

(* --------------------------- App: actions ----------------------------- *)
KindOrder == <<"imgSubmit", "imgEnhance", "imgVariations", "vidSubmit", "vidEnhance",
               "audFx", "audEnhance">>

IsReq(r) == r # NoReq

\* the requests of the mounted tool go on without their component: nothing
\* in the handlers or in an unmount effect cancels them
Unmounted ==
  orphans \o SelectSeq([i \in 1..Len(KindOrder) |-> live[KindOrder[i]]], IsReq)

\* Sidebar / upgrade modal: setActiveMode(m); <main key={activeMode}>
\* unmounts the old view and mounts a fresh one
SetActiveMode(m) ==
  /\ activeMode # RootUnmounted
  /\ m # activeMode
  /\ Len(Unmounted) <= MaxOrphans
  /\ activeMode' = m
  /\ image' = ImageInit
  /\ video' = VideoInit
  /\ audio' = AudioInit
  /\ live' = [k \in Kinds |-> NoReq]
  /\ orphans' = Unmounted
  /\ event' = NoEvent
  /\ NoCommit
  /\ UNCHANGED <<toasts, showUpgradeModal, session>>
  /\ Rendered

\* Premium -> handleSetSubscriptionTier(tier)
Subscribe(tier) ==
  /\ activeMode = "PREMIUM"
  /\ tier \in Tiers \ {"free", subscriptionTier}
  /\ \E failing \in Failing({"tier"}) :
       Commit(libraryItems, tier, settings, {"tier"}, failing)
  /\ toasts' = addToast(toasts, "success", SubscribedMsg)
  /\ activeMode' = "PROFILE"
  /\ event' = NoEvent
  /\ UNCHANGED <<showUpgradeModal, session, image, video, audio, live, orphans>>
  /\ Rendered

\* Library -> handleDelete(itemId) for the item shown in the detail modal
DeleteItem(i) ==
  /\ activeMode = "LIBRARY"
  /\ i \in 1..Len(libraryItems)
  /\ \E failing \in Failing({"library"}) :
       Commit(SelectSeqBy(libraryItems, libraryItems[i].id), subscriptionTier,
              settings, {"library"}, failing)
  /\ toasts' = addToast(toasts, "success", DeletedMsg)
  /\ event' = NoEvent
  /\ UNCHANGED <<activeMode, showUpgradeModal, session, image, video, audio, live,
               orphans>>
  /\ Rendered

\* Settings -> handleClearLibrary
ClearLibrary ==
  /\ activeMode = "SETTINGS"
  /\ \E failing \in Failing({"library"}) :
       Commit(<<>>, subscriptionTier, settings, {"library"}, failing)
  /\ toasts' = addToast(toasts, "success", ClearedMsg)
  /\ event' = NoEvent
  /\ UNCHANGED <<activeMode, showUpgradeModal, session, image, video, audio, live,
               orphans>>
  /\ Rendered

\* Settings -> handleThemeChange(theme)
ThemeChange(theme) ==
  /\ activeMode = "SETTINGS"
  /\ \E failing \in Failing({"settings"}) :
       Commit(libraryItems, subscriptionTier, [settings EXCEPT !.theme = theme],
              {"settings"}, failing)
  /\ event' = NoEvent
  /\ UNCHANGED <<activeMode, toasts, showUpgradeModal, session, image, video, audio,
               live, orphans>>
  /\ Rendered

\* settings.notifications[key] read as a condition: a property that is
\* missing reads undefined, which is falsy
Enabled(set, key) ==
  IF key \in DOMAIN set.notifications THEN set.notifications[key] ELSE FALSE

\* {...s.notifications, [key]: value}
WithNotification(n, key, value) ==
  IF key \in DOMAIN n THEN [n EXCEPT ![key] = value] ELSE n @@ (key :> value)

\* Settings -> handleNotificationChange(key, !enabled)
NotificationChange(key) ==
  /\ activeMode = "SETTINGS"
  /\ \E failing \in Failing({"settings"}) :
       Commit(libraryItems, subscriptionTier,
              [settings EXCEPT !.notifications =
                 WithNotification(@, key, ~Enabled(settings, key))],
              {"settings"}, failing)
  /\ event' = NoEvent
  /\ UNCHANGED <<activeMode, toasts, showUpgradeModal, session, image, video, audio,
               live, orphans>>
  /\ Rendered

\* what a file picked for import can hold: text that is not JSON, or the
\* JSON of an object with some of the settings properties
NotJson == [json |-> FALSE]
Json(value) == [json |-> TRUE, value |-> value]

SettingsFiles ==
  {NotJson,
   Json([theme |-> "crimson",
         notifications |-> [generationComplete |-> FALSE, promotions |-> FALSE]]),
   Json([theme |-> "crimson", notifications |-> [generationComplete |-> TRUE]]),
   Json([theme |-> "crimson"]),
   Json([theme |-> "",
         notifications |-> [generationComplete |-> TRUE, promotions |-> TRUE]]),
   Json([notifications |-> [generationComplete |-> TRUE, promotions |-> TRUE]])}

\* "Basic validation": importedSettings.theme && importedSettings.notifications;
\* a missing property and the empty string are falsy, an object is truthy
BasicValidation(imported) ==
  /\ "theme" \in DOMAIN imported
  /\ imported.theme # ""
  /\ "notifications" \in DOMAIN imported

\* Settings -> handleImportSettings, with the onload of its FileReader
ImportSettings(file) ==
  /\ activeMode = "SETTINGS"
  /\ IF file.json /\ BasicValidation(file.value)
     THEN /\ \E failing \in Failing({"settings"}) :
               Commit(libraryItems, subscriptionTier, file.value,
                      {"settings"}, failing)
          /\ toasts' = addToast(toasts, "success", ImportedMsg)
     ELSE /\ NoCommit
          /\ toasts' = addToast(toasts, "error",
                                IF file.json THEN InvalidFormatMsg
                                ELSE JsonSyntaxError)
  /\ event' = NoEvent
  /\ UNCHANGED <<activeMode, showUpgradeModal, session, image, video, audio, live,
                 orphans>>
  /\ Rendered

\* removeToast(id): the dismiss timer of a toast, or its close button
RemoveToast(i) ==
  /\ i \in 1..Len(toasts)
  /\ toasts' = RemoveAt(toasts, i)
  /\ event' = NoEvent
  /\ NoCommit
  /\ UNCHANGED <<activeMode, showUpgradeModal, session, image, video, audio, live,
               orphans>>
  /\ Rendered

\* a click on the backdrop of the upgrade modal: setShowUpgradeModal(false)
CloseUpgradeModal ==
  /\ showUpgradeModal
  /\ showUpgradeModal' = FALSE
  /\ event' = NoEvent
  /\ NoCommit
  /\ UNCHANGED <<activeMode, toasts, session, image, video, audio, live, orphans>>
  /\ Rendered

\* "View Premium Plans": setShowUpgradeModal(false); setActiveMode('PREMIUM')
ViewPremiumPlans ==
  /\ showUpgradeModal
  /\ showUpgradeModal' = FALSE
  /\ Len(Unmounted) <= MaxOrphans
  /\ activeMode' = "PREMIUM"
  /\ IF activeMode # "PREMIUM"
     THEN /\ image' = ImageInit
          /\ video' = VideoInit
          /\ audio' = AudioInit
          /\ live' = [k \in Kinds |-> NoReq]
          /\ orphans' = Unmounted
     ELSE UNCHANGED <<image, video, audio, live, orphans>>
  /\ event' = NoEvent
  /\ NoCommit
  /\ UNCHANGED <<toasts, session>>
  /\ Rendered

\* the browser's storage reaches its quota: from now on setItem may throw
StorageFills ==
  /\ ~storageFull
  /\ storageFull' = TRUE
  /\ profile' = profile
  /\ UNCHANGED built
  /\ event' = NoEvent
  /\ NoCommit
  /\ UNCHANGED <<activeMode, toasts, showUpgradeModal, session, image, video, audio,
               live, orphans>>

\* the load effect of App: what a new page load reads back from storage
LoadedLibrary(store) == store.library
LoadedTier(store) == IF store.tier \in Tiers THEN store.tier ELSE "free"
LoadedSettings(store) == store.settings

\* a page reload: every component and request of the old page is gone; the
\* new App mounts with its initial state, its effects run in order (load,
\* then the three writes of the initial state), and the render that follows
\* the load writes the loaded values
Reload ==
  /\ session <= MaxReloads
  /\ session' = session + 1
  /\ activeMode' = "IMAGE"
  /\ toasts' = <<>>
  /\ showUpgradeModal' = FALSE
  /\ image' = ImageInit
  /\ video' = VideoInit
  /\ audio' = AudioInit
  /\ live' = [k \in Kinds |-> NoReq]
  /\ orphans' = <<>>
  /\ event' = NoEvent
  /\ \E failing1 \in Failing(StorageKeys) :
       LET lib == LoadedLibrary(localStorage)
           tier == LoadedTier(localStorage)
           set == LoadedSettings(localStorage)
           first == Persist(localStorage, StorageKeys, failing1,
                            <<>>, "free", defaultSettings)
           changed == {"library", "settings"} \cup
                      (IF tier # "free" THEN {"tier"} ELSE {})
       IN  \E failing2 \in Failing(changed) :
             /\ libraryItems' = lib
             /\ subscriptionTier' = tier
             /\ settings' = set
             /\ localStorage' = Persist(first, changed, failing2, lib, tier, set)
             /\ console' = failing1 \cup failing2
  /\ Rendered

(* ----------------------- ImageTools: the form ------------------------- *)
\* a handlePremiumFeature that runs the action whatever the tier
\* (sensitivity of C11 and C12)
AlwaysRunsAction(tier, requiredTier) == TRUE

\* handlePremiumFeature(requiredTier, action): whether action runs
handlePremiumFeature(tier, requiredTier) ==
  ~(tierLevels[tier] < tierLevels[requiredTier])

\* commonProps.promptUpgrade: setShowUpgradeModal(true)
promptUpgrade == showUpgradeModal' = TRUE

\* a handler of a tool's form: only the form, and the toasts or the upgrade
\* modal of App, can change
ToolStep ==
  /\ event' = NoEvent
  /\ NoCommit
  /\ UNCHANGED <<activeMode, session, live, orphans>>
  /\ Rendered

FormStep ==
  /\ ToolStep
  /\ UNCHANGED showUpgradeModal

\* handlePremiumFeature(requiredTier, () => set field of ImageTools to value)
ImgPremiumFeature(requiredTier, field, value) ==
  /\ activeMode = "IMAGE"
  /\ IF handlePremiumFeature(subscriptionTier, requiredTier)
     THEN /\ image' = [image EXCEPT ![field] = value]
          /\ UNCHANGED showUpgradeModal
     ELSE /\ promptUpgrade
          /\ UNCHANGED <<image, audio>>
  /\ UNCHANGED <<video, audio, toasts>>
  /\ ToolStep

\* handlePremiumFeature(requiredTier, () => set field of VideoGenerator to value)
VidPremiumFeature(requiredTier, field, value) ==
  /\ activeMode = "VIDEO"
  /\ IF handlePremiumFeature(subscriptionTier, requiredTier)
     THEN /\ video' = [video EXCEPT ![field] = value]
          /\ UNCHANGED showUpgradeModal
     ELSE /\ promptUpgrade
          /\ UNCHANGED <<video, audio>>
  /\ UNCHANGED <<image, audio, toasts>>
  /\ ToolStep

\* handlePromptChange(index, value)
ImgPromptChange(index, value) ==
  /\ activeMode = "IMAGE"
  /\ index \in 1..Len(image.prompts)
  /\ image.prompts[index] # value
  /\ image' = [image EXCEPT !.prompts[index] = value]
  /\ UNCHANGED <<video, audio, toasts>>
  /\ FormStep

\* the two mode buttons; Image Transform also resets the prompts
ImgSetMode(m) ==
  /\ activeMode = "IMAGE"
  /\ m # image.mode
  /\ image' = IF m = "image-transform"
              THEN [image EXCEPT !.mode = m, !.prompts = <<"">>]
              ELSE [image EXCEPT !.mode = m]
  /\ UNCHANGED <<video, audio, toasts>>
  /\ FormStep

\* handleFileSelect(file), from the file input or a drop
ImgFileSelect(valid) ==
  /\ activeMode = "IMAGE"
  /\ image.mode = "image-transform"
  /\ IF valid
     THEN /\ image' = [image EXCEPT !.imageFile = TRUE]
          /\ toasts' = addToast(toasts, "success", "Image loaded successfully.")
     ELSE /\ image' = [image EXCEPT !.error = "Please select a valid image file."]
          /\ toasts' = addToast(toasts, "error", "Invalid file type.")
  /\ UNCHANGED <<video, audio>>
  /\ FormStep

\* resetForm
ImgReset ==
  /\ activeMode = "IMAGE"
  /\ image' = [image EXCEPT !.prompts = <<"">>, !.imageFile = FALSE,
                            !.generatedImages = <<>>, !.selectedImage = "null",
                            !.error = "null", !.variations = <<>>,
                            !.persona = "none", !.seed = "",
                            !.styleIntensity = "balanced",
                            !.negativeIntensity = "balanced", !.batchSize = 1]
  /\ image' # image
  /\ UNCHANGED <<video, audio, toasts>>
  /\ FormStep

\* an add-prompt button that calls addPromptField without the tier test
AddPromptFieldUngated ==
  /\ activeMode = "IMAGE"
  /\ image.mode = "text-to-image"
  /\ Len(image.prompts) < 3
  /\ image' = [image EXCEPT !.prompts = Append(image.prompts, "")]
  /\ UNCHANGED <<video, audio, toasts>>
  /\ FormStep

\* addPromptField, behind the button shown in text-to-image mode under
\* three prompts
ImgAddPromptField ==
  /\ image.mode = "text-to-image"
  /\ Len(image.prompts) < 3
  /\ ImgPremiumFeature("diamond", "prompts", Append(image.prompts, ""))

\* removePromptField(index), behind the buttons shown with several prompts
ImgRemovePromptField(index) ==
  /\ activeMode = "IMAGE"
  /\ Len(image.prompts) > 1
  /\ index \in 1..Len(image.prompts)
  /\ image' = [image EXCEPT !.prompts = RemoveAt(image.prompts, index)]
  /\ UNCHANGED <<video, audio, toasts>>
  /\ FormStep

\* an entry of the prompt history is picked: setPrompts([p])
ImgPickHistory(p) ==
  /\ activeMode = "IMAGE"
  /\ image.prompts # <<p>>
  /\ image' = [image EXCEPT !.prompts = <<p>>]
  /\ UNCHANGED <<video, audio, toasts>>
  /\ FormStep

\* the batch size buttons
ImgSetBatchSize(size) == ImgPremiumFeature("diamond", "batchSize", size)

\* the aspect ratio buttons; a ratio that is not premium is set directly
ImgSetAspectRatio(ratio) ==
  ImgPremiumFeature(aspectRatios[ratio], "aspectRatio", ratio)

\* the persona select
ImgSetPersona(p) ==
  /\ p # image.persona
  /\ ImgPremiumFeature(imagePersonas[p], "persona", p)

\* the style intensity buttons
ImgSetStyleIntensity(i) == ImgPremiumFeature("golden", "styleIntensity", i)

\* the negative intensity buttons
ImgSetNegativeIntensity(i) == ImgPremiumFeature("diamond", "negativeIntensity", i)

\* the seed input, disabled below diamond
ImgSetSeed(value) ==
  /\ ~(tierLevels[subscriptionTier] < tierLevels["diamond"])
  /\ value # image.seed
  /\ ImgPremiumFeature("diamond", "seed", value)

(* --------------------- VideoGenerator: the form ----------------------- *)
\* setPrompt from the textarea
VidSetPrompt(value) ==
  /\ activeMode = "VIDEO"
  /\ video.prompt # value
  /\ video' = [video EXCEPT !.prompt = value]
  /\ UNCHANGED <<image, audio, toasts>>
  /\ FormStep

\* the two mode buttons
VidSetMode(m) ==
  /\ activeMode = "VIDEO"
  /\ m # video.mode
  /\ video' = [video EXCEPT !.mode = m]
  /\ UNCHANGED <<image, audio, toasts>>
  /\ FormStep

\* handleFileSelect(file)
VidFileSelect(valid) ==
  /\ activeMode = "VIDEO"
  /\ video.mode = "image-to-video"
  /\ IF valid
     THEN /\ video' = [video EXCEPT !.imageFile = TRUE]
          /\ toasts' = addToast(toasts, "success", "Image loaded successfully.")
     ELSE /\ video' = [video EXCEPT !.error = "Please select a valid image file."]
          /\ toasts' = addToast(toasts, "error", "Invalid file type.")
  /\ UNCHANGED <<image, audio>>
  /\ FormStep

\* the audio mood select
VidSetAudioMood(m) ==
  /\ m # video.audioMood
  /\ VidPremiumFeature("golden", "audioMood", m)

\* the persona select
VidSetPersona(p) ==
  /\ p # video.persona
  /\ VidPremiumFeature(videoPersonas[p], "persona", p)

\* the aspect ratio buttons; a ratio that is not premium is set directly
VidSetAspectRatio(ratio) ==
  VidPremiumFeature(aspectRatios[ratio], "aspectRatio", ratio)

\* the frame rate buttons; 24 FPS is set directly
VidSetFps(f) == VidPremiumFeature(videoFPSs[f], "fps", f)

\* the quality buttons; Standard is set directly
VidSetQuality(q) == VidPremiumFeature(videoQualities[q], "quality", q)

\* the duration buttons
VidSetDuration(d) == VidPremiumFeature(videoDurations[d], "duration", d)

\* resetForm
VidReset ==
  /\ activeMode = "VIDEO"
  /\ video' = [video EXCEPT !.prompt = "", !.imageFile = FALSE,
                            !.generatedVideo = Null, !.generatedAudio = "null",
                            !.error = "null", !.audioMood = "none",
                            !.duration = "short", !.quality = "standard",
                            !.persona = "cinematographer",
                            !.aspectRatio = "1:1", !.fps = 24]
  /\ video' # video
  /\ UNCHANGED <<image, audio, toasts>>
  /\ FormStep

(* ------------------------ starting a request -------------------------- *)
\* room in the library for the items of every request in flight, and a
\* time left for the new request to be saved at
Room ==
  /\ Len(libraryItems) + InFlight < MaxLib
  /\ LatestId(libraryItems) < MaxTime

\* the same for a request on the displayed image, which is in the library
\* already
FollowUpRoom ==
  /\ Len(libraryItems) + InFlight < MaxFollowUp
  /\ LatestId(libraryItems) < MaxTime

NewReq(kind, pc) ==
  [NoReq EXCEPT !.kind = kind, !.pc = pc, !.after = LatestId(libraryItems),
                !.notify = Enabled(settings, "generationComplete")]

StartStep(kind, r) ==
  /\ live' = [live EXCEPT ![kind] = r]
  /\ event' = NoEvent
  /\ NoCommit
  /\ UNCHANGED <<activeMode, session, orphans, toasts, showUpgradeModal>>
  /\ Rendered

\* ImageTools: isSubmitDisabled
ImgSubmitDisabled ==
  \/ image.isLoading
  \/ \A i \in 1..Len(image.prompts) : image.prompts[i] = ""
  \/ image.mode = "image-transform" /\ ~image.imageFile

\* parseInt(seed, 10) of what the Seed input holds
parseInt == ("0" :> 0) @@ ("7" :> 7)

\* currentSettings.seed: seed ? parseInt(seed, 10) : undefined
SettingsSeed(seed) == IF seed = "" THEN Undefined ELSE JsNumber(parseInt[seed])

NonEmpty(prompt) == prompt # ""

\* prompts.filter(p => p.trim() !== ''), each prompt as the text of a prompt
validPrompts(prompts) ==
  LET valid == SelectSeq(prompts, NonEmpty)
  IN  [i \in 1..Len(valid) |-> <<Ch(valid[i])>>]

\* the ten arguments of the call of generateImageFromText in handleSubmit:
\* validPrompts, aspectRatio, style, negativePrompt, language, persona,
\* styleIntensity, negativeIntensity, batchSize, currentSettings.seed
SubmitArguments(img) ==
  <<validPrompts(img.prompts), img.aspectRatio, "none", <<>>, "english",
    img.persona, img.styleIntensity, JsString(img.negativeIntensity),
    JsNumber(img.batchSize), SettingsSeed(img.seed)>>

\* generateImageFromText(prompts, aspectRatio, style, negativePrompt,
\* language, persona, styleIntensity, seed): the config of the
\* generateImages request it sends; its parameters are bound by position
generateImageFromText(args) ==
  [prompt |-> constructImagePrompt(args[1], args[3], args[4], args[5], args[6],
                                   args[7]),
   numberOfImages |-> 1, aspectRatio |-> args[2], seed |-> args[8]]

\* ImageTools.handleSubmit up to its first await
ImgSubmit ==
  /\ activeMode = "IMAGE"
  /\ ~ImgSubmitDisabled
  /\ Room
  /\ image' = [image EXCEPT !.isLoading = TRUE, !.error = "null",
                            !.generatedImages = <<>>, !.selectedImage = "null",
                            !.variations = <<>>, !.lastSettings = TRUE]
  /\ StartStep("imgSubmit",
               IF image.mode = "image-transform"
               THEN [NewReq("imgSubmit", "file") EXCEPT !.mode = image.mode]
               ELSE [NewReq("imgSubmit", "call")
                       EXCEPT !.mode = image.mode, !.batch = image.batchSize,
                              !.sent = generateImageFromText(SubmitArguments(image))])
  /\ UNCHANGED <<video, audio>>

\* mainContent shows the result panel with its buttons
ImgResultShown ==
  /\ ~image.isLoading
  /\ ~image.isGeneratingVariations
  /\ image.generatedImages # <<>>
  /\ image.selectedImage # "null"

\* ImageTools.handleEnhance up to its await
ImgEnhance ==
  /\ activeMode = "IMAGE"
  /\ ImgResultShown
  /\ ~image.isEnhancing
  /\ handlePremiumFeature(subscriptionTier, "diamond")
  /\ FollowUpRoom
  /\ image' = [image EXCEPT !.isEnhancing = TRUE, !.error = "null"]
  /\ StartStep("imgEnhance",
               [NewReq("imgEnhance", "call") EXCEPT !.sel = image.selectedImage])
  /\ UNCHANGED <<video, audio>>

\* ImageTools.handleVariations up to its await: four transformImage calls
ImgVariations ==
  /\ activeMode = "IMAGE"
  /\ ImgResultShown
  /\ image.lastSettings
  /\ handlePremiumFeature(subscriptionTier, "golden")
  /\ FollowUpRoom
  /\ image' = [image EXCEPT !.isGeneratingVariations = TRUE, !.error = "null"]
  /\ StartStep("imgVariations",
               [NewReq("imgVariations", "call") EXCEPT !.sel = image.selectedImage])
  /\ UNCHANGED <<video, audio>>

\* VideoGenerator: isSubmitDisabled
VidSubmitDisabled ==
  \/ video.isLoading
  \/ video.prompt = ""
  \/ video.mode = "image-to-video" /\ ~video.imageFile

\* the soundtrack promise handleSubmit creates next to the video promise
AudioPromise(mood) == IF mood # "none" THEN "pending" ELSE "none"

\* VideoGenerator.handleSubmit up to its first await
VidSubmit ==
  /\ activeMode = "VIDEO"
  /\ ~VidSubmitDisabled
  /\ Room
  /\ video' = [video EXCEPT !.isLoading = TRUE, !.error = "null",
                            !.generatedVideo = Null, !.generatedAudio = "null",
                            !.lastSettings = TRUE]
  /\ StartStep("vidSubmit",
               IF video.mode = "image-to-video"
               THEN [NewReq("vidSubmit", "file")
                       EXCEPT !.mode = video.mode, !.mood = video.audioMood]
               ELSE [NewReq("vidSubmit", "gen")
                       EXCEPT !.mode = video.mode, !.mood = video.audioMood,
                              !.audio = AudioPromise(video.audioMood)])
  /\ UNCHANGED <<image, audio>>

\* VideoGenerator.handleEnhance up to its await
VidEnhance ==
  /\ activeMode = "VIDEO"
  /\ video.generatedVideo # Null
  /\ ~video.isEnhancing
  /\ video.lastSettings
  /\ handlePremiumFeature(subscriptionTier, "diamond")
  /\ Room
  /\ video' = [video EXCEPT !.isEnhancing = TRUE, !.error = "null",
                            !.generatedVideo = Null, !.isLoading = TRUE]
  /\ StartStep("vidEnhance", [NewReq("vidEnhance", "gen") EXCEPT !.audio = "none"])
  /\ UNCHANGED <<image, audio>>

(* ----------------------------- AudioTools ----------------------------- *)
\* the four tabs
AudSetMode(m) ==
  /\ activeMode = "AUDIO"
  /\ m # audio.mode
  /\ audio' = [audio EXCEPT !.mode = m]
  /\ UNCHANGED <<image, video, toasts>>
  /\ FormStep

\* setFxPrompt from the textarea of the Sound FX tab
AudSetFxPrompt(value) ==
  /\ activeMode = "AUDIO"
  /\ audio.mode = "sound-fx"
  /\ value # audio.fxPrompt
  /\ audio' = [audio EXCEPT !.fxPrompt = value]
  /\ UNCHANGED <<image, video, toasts>>
  /\ FormStep

\* handleEnhancementFile(file), from the upload zone shown while no file is
\* held
AudEnhancementFile(valid) ==
  /\ activeMode = "AUDIO"
  /\ audio.mode = "audio-enhancement"
  /\ ~audio.enhancementFile
  /\ IF valid
     THEN /\ audio' = [audio EXCEPT !.enhancementFile = TRUE]
          /\ UNCHANGED toasts
     ELSE /\ toasts' = addToast(toasts, "error", "Please select a valid audio file.")
          /\ UNCHANGED audio
  /\ UNCHANGED <<image, video>>
  /\ FormStep

\* the enhancement mode buttons, shown once a file is held: not gated
AudSetEnhancementMode(m) ==
  /\ activeMode = "AUDIO"
  /\ audio.mode = "audio-enhancement"
  /\ audio.enhancementFile
  /\ m # audio.enhancementMode
  /\ audio' = [audio EXCEPT !.enhancementMode = m]
  /\ UNCHANGED <<image, video, toasts>>
  /\ FormStep

\* handleGenerateFx up to its await; the button is there while no effect
\* has been generated
AudGenerateFx ==
  /\ activeMode = "AUDIO"
  /\ audio.mode = "sound-fx"
  /\ audio.generatedFx = "null"
  /\ ~audio.isGeneratingFx
  /\ IF ~handlePremiumFeature(subscriptionTier, "golden")
     THEN /\ promptUpgrade
          /\ UNCHANGED <<audio, live>>
     ELSE IF audio.fxPrompt = ""
     THEN /\ audio' = [audio EXCEPT !.fxError = "Please describe the sound effect."]
          /\ audio' # audio
          /\ UNCHANGED <<showUpgradeModal, live>>
     ELSE /\ audio' = [audio EXCEPT !.isGeneratingFx = TRUE, !.fxError = "null"]
          /\ live' = [live EXCEPT !["audFx"] = NewReq("audFx", "call")]
          /\ UNCHANGED showUpgradeModal
  /\ event' = NoEvent
  /\ NoCommit
  /\ UNCHANGED <<activeMode, session, orphans, toasts, image, video>>
  /\ Rendered

\* handleEnhanceAudio up to its first await; the button is there while a
\* file is held
AudEnhanceAudio ==
  /\ activeMode = "AUDIO"
  /\ audio.mode = "audio-enhancement"
  /\ audio.enhancementFile
  /\ ~audio.isEnhancing
  /\ IF ~handlePremiumFeature(subscriptionTier,
                              enhancementModes[audio.enhancementMode])
     THEN /\ promptUpgrade
          /\ UNCHANGED <<audio, live>>
     ELSE /\ audio' = [audio EXCEPT !.isEnhancing = TRUE,
                                    !.enhancementError = "null",
                                    !.enhancedAudio = "null"]
          /\ live' = [live EXCEPT !["audEnhance"] =
                        [NewReq("audEnhance", "file")
                           EXCEPT !.mode = audio.enhancementMode]]
          /\ UNCHANGED showUpgradeModal
  /\ event' = NoEvent
  /\ NoCommit
  /\ UNCHANGED <<activeMode, session, orphans, toasts, image, video>>
  /\ Rendered

(* ---------------------- a request moves on ---------------------------- *)
ReqOf(isLive, at) == IF isLive THEN live[at] ELSE orphans[at]

\* the request stays suspended, at r
SetReq(isLive, at, r) ==
  IF isLive
  THEN live' = [live EXCEPT ![at] = r] /\ UNCHANGED orphans
  ELSE orphans' = [orphans EXCEPT ![at] = r] /\ UNCHANGED live

\* the handler has returned
DropReq(isLive, at) ==
  IF isLive
  THEN live' = [live EXCEPT ![at] = NoReq] /\ UNCHANGED orphans
  ELSE orphans' = RemoveAt(orphans, at) /\ UNCHANGED live

\* a step inside the service wrapper: no component or App state changes
InnerStep(isLive, at, r) ==
  /\ SetReq(isLive, at, r)
  /\ event' = NoEvent
  /\ NoCommit
  /\ UNCHANGED <<activeMode, session, toasts, showUpgradeModal, image, video, audio>>
  /\ Rendered

\* the message a catch block shows: err.message of an Error, else the
\* handler's own wording
ErrorMessage(kind, reason) ==
  IF reason # NonError THEN reason
  ELSE IF kind \in {"imgEnhance", "vidEnhance"} THEN EnhanceFailed
  ELSE IF kind = "imgVariations" THEN VariationFailed
  ELSE IF kind = "audFx" THEN FxFailed
  ELSE IF kind = "audEnhance" THEN AudioEnhanceFailed
  ELSE UnknownError

\* the catch blocks of ImageTools without their finally (sensitivity of C1)
ImageCatchOnly(img, kind, msg) == [img EXCEPT !.error = msg]

\* catch and finally of the three ImageTools handlers
ImageCatchFinally(img, kind, msg) ==
  IF kind = "imgSubmit" THEN [img EXCEPT !.error = msg, !.isLoading = FALSE]
  ELSE IF kind = "imgEnhance" THEN [img EXCEPT !.error = msg, !.isEnhancing = FALSE]
  ELSE [img EXCEPT !.error = msg, !.isGeneratingVariations = FALSE]

\* catch and finally of the two VideoGenerator handlers
VideoCatchFinally(vid, kind, msg) ==
  IF kind = "vidSubmit" THEN [vid EXCEPT !.error = msg, !.isLoading = FALSE]
  ELSE [vid EXCEPT !.error = msg, !.isEnhancing = FALSE, !.isLoading = FALSE]

\* catch and finally of the two AudioTools handlers
AudioCatchFinally(aud, kind, msg) ==
  IF kind = "audFx" THEN [aud EXCEPT !.fxError = msg, !.isGeneratingFx = FALSE]
  ELSE [aud EXCEPT !.enhancementError = msg, !.isEnhancing = FALSE]

\* a poll loop that polls again after a failed poll (sensitivity of C4)
RetryPoll(r) == IF r.pc = "poll" THEN "wait" ELSE "catch"

\* where a handler goes when a promise it awaits rejects: neither the
\* handlers nor the service wrapper retry, the rejection reaches the catch
OnReject(r) == "catch"

\* the toasts of a catch block
CatchToasts(msg) == <<[type |-> "error", message |-> msg]>>

RECURSIVE AddToasts(_, _)
\* addToast for each toast of ts2, in order
AddToasts(ts, ts2) ==
  IF ts2 = <<>> THEN ts
  ELSE AddToasts(addToast(ts, Head(ts2).type, Head(ts2).message), Tail(ts2))

\* a promise the request r awaits rejects with reason
Fail(isLive, at, r, reason) ==
  LET msg == ErrorMessage(r.kind, reason)
      next == OnReject(r)
  IN  IF next = "catch"
      THEN /\ NoCommit
           /\ DropReq(isLive, at)
           /\ toasts' = AddToasts(toasts, CatchToasts(msg))
           /\ IF isLive /\ r.kind \in ImageKinds
              THEN /\ image' = ImageCatchFinally(image, r.kind, msg)
                   /\ UNCHANGED <<video, audio>>
              ELSE IF isLive /\ r.kind \in VideoKinds
              THEN /\ video' = VideoCatchFinally(video, r.kind, msg)
                   /\ UNCHANGED <<image, audio>>
              ELSE IF isLive
              THEN /\ audio' = AudioCatchFinally(audio, r.kind, msg)
                   /\ UNCHANGED <<image, video>>
              ELSE UNCHANGED <<image, video, audio>>
           /\ event' = [what |-> "reject", req |-> r, live |-> isLive,
                        msg |-> msg, inflight |-> InFlight,
                        ntoasts |-> Len(CatchToasts(msg)),
                        nsaved |-> Len(libraryItems') - Len(libraryItems)]
           /\ UNCHANGED <<activeMode, session, showUpgradeModal>>
           /\ Rendered
      ELSE /\ SetReq(isLive, at, [r EXCEPT !.pc = next])
           /\ event' = [what |-> "reject", req |-> r, live |-> isLive,
                        msg |-> msg, inflight |-> InFlight,
                        ntoasts |-> 0, nsaved |-> 0]
           /\ NoCommit
           /\ UNCHANGED <<activeMode, session, toasts, showUpgradeModal, image,
                          video, audio>>
           /\ Rendered

\* the calls generateImageVariations starts before it awaits any of them:
\* Array(4).fill(0).map(() => transformImage(variationPrompt, originalImage))
VariationCalls == 1..VariationCount

\* the calls of the variations request r that have not resolved yet
PendingCalls(r) == {call \in VariationCalls : \A i \in 1..Len(r.arrived) : r.arrived[i] # call}

\* the data URL transformImage returns to the call-th of the four calls
transformImage(call) ==
  <<"variation1", "variation2", "variation3", "variation4">>[call]

\* an array filled in the order the calls resolved (sensitivity of C21)
InArrivalOrder(arrived) == [i \in 1..Len(arrived) |-> transformImage(arrived[i])]

\* Promise.all(promises) once every promise has resolved, arrived being the
\* order they resolved in: the value at index i is the value of promise i
PromiseAll(arrived) == [i \in 1..Len(arrived) |-> transformImage(i)]

\* the item a handler passes to onSaveToLibrary
SavedItem(r) ==
  IF r.kind = "imgSubmit" /\ r.mode = "text-to-image"
  THEN [type |-> "IMAGE", src |-> FirstCharacter(DataUrl), audioSrc |-> "absent",
        variations |-> RestOfString]
  ELSE IF r.kind = "imgVariations"
  THEN [type |-> "IMAGE", src |-> DataUrl, audioSrc |-> "absent",
        variations |-> ArrayOf(Len(PromiseAll(r.arrived)))]
  ELSE IF r.kind \in ImageKinds
  THEN [type |-> "IMAGE", src |-> DataUrl, audioSrc |-> "absent",
        variations |-> NoVariations]
  ELSE IF r.kind = "vidSubmit"
  THEN [type |-> "VIDEO", src |-> BlobUrl(session),
        audioSrc |-> IF r.audio = "resolved" THEN "data:audio/wav" ELSE "undefined",
        variations |-> NoVariations]
  ELSE [type |-> "VIDEO", src |-> BlobUrl(session), audioSrc |-> "absent",
        variations |-> NoVariations]

\* handleSaveToLibrary(item) at time now: the new library
handleSaveToLibrary(items, item, now) ==
  <<[id |-> now, type |-> item.type, src |-> item.src,
     audioSrc |-> item.audioSrc, variations |-> item.variations]>> \o items

\* the toasts of a handler that ran to the end of its try block: the one of
\* handleSaveToLibrary, then the handler's own
SuccessToasts(r) ==
  (IF r.notify THEN <<[type |-> "success", message |-> SavedMsg]>> ELSE <<>>) \o
  (IF r.kind = "imgEnhance"
   THEN <<[type |-> "success", message |-> ImageEnhancedMsg]>>
   ELSE IF r.kind = "imgVariations"
   THEN <<[type |-> "success", message |-> VariationsMsg]>>
   ELSE IF r.kind = "vidEnhance"
   THEN <<[type |-> "success", message |-> VideoEnhancedMsg]>>
   ELSE <<>>)

\* the image the text-to-image or transform call delivered
SubmitResult(r) == IF r.mode = "image-transform" THEN "transformed" ELSE "generated"

\* the try block and finally of the three ImageTools handlers after the await
ImageTryFinally(img, r) ==
  IF r.kind = "imgSubmit"
  THEN [img EXCEPT !.generatedImages = <<SubmitResult(r)>>,
                   !.selectedImage = SubmitResult(r), !.isLoading = FALSE]
  ELSE IF r.kind = "imgEnhance"
  THEN [img EXCEPT !.selectedImage = "enhanced", !.generatedImages = <<"enhanced">>,
                   !.variations = <<>>, !.isEnhancing = FALSE]
  ELSE [img EXCEPT !.variations = PromiseAll(r.arrived),
                   !.generatedImages = <<r.sel>> \o PromiseAll(r.arrived),
                   !.isGeneratingVariations = FALSE]

\* the try blocks of VideoGenerator without their finally (sensitivity of C3)
VideoTryOnly(vid, r, url) ==
  IF r.kind = "vidSubmit"
  THEN [vid EXCEPT !.generatedVideo = url,
                   !.generatedAudio =
                      IF r.audio = "resolved" THEN "data:audio/wav" ELSE @]
  ELSE [vid EXCEPT !.generatedVideo = url]

\* the try block and finally of the two VideoGenerator handlers after the await
VideoTryFinally(vid, r, url) ==
  IF r.kind = "vidSubmit"
  THEN [vid EXCEPT !.generatedVideo = url,
                   !.generatedAudio =
                      IF r.audio = "resolved" THEN "data:audio/wav" ELSE @,
                   !.isLoading = FALSE]
  ELSE [vid EXCEPT !.generatedVideo = url, !.isEnhancing = FALSE,
                   !.isLoading = FALSE]

\* mainContent with generatedImages set to the string generateImageFromText
\* returned: its length is above 1 and it has no map, so the render throws
RenderThrows(isLive, r) ==
  isLive /\ r.kind = "imgSubmit" /\ r.mode = "text-to-image"

\* the handler of a text-to-image request resumes in the mounted ImageTools:
\* setGeneratedImages(results), setSelectedImage(results[0]),
\* onSaveToLibrary(...), setIsLoading(false), and the render that follows
\* throws.  Where React batches the updates of the continuation, none of
\* them is committed; where it renders on every update, the save is
\* committed and persisted before setIsLoading(false) brings the render
\* that throws.  Either way the tree is unmounted: the toasts are gone and
\* the setters of the requests still in flight have nothing to update.
RenderCrash(r) ==
  /\ activeMode' = RootUnmounted
  /\ image' = ImageInit
  /\ video' = VideoInit
  /\ audio' = AudioInit
  /\ live' = [k \in Kinds |-> NoReq]
  /\ orphans' = <<>>
  /\ toasts' = <<>>
  /\ showUpgradeModal' = FALSE
  /\ \E batched \in BOOLEAN :
       /\ IF batched THEN NoCommit
          ELSE \E now \in Now(r), failing \in Failing({"library"}) :
                 Commit(handleSaveToLibrary(libraryItems, SavedItem(r), now),
                        subscriptionTier, settings, {"library"}, failing)
       /\ event' = [what |-> "resolve", req |-> r, live |-> TRUE, msg |-> "",
                    inflight |-> InFlight,
                    ntoasts |-> IF batched THEN 0 ELSE Len(SuccessToasts(r)),
                    nsaved |-> Len(libraryItems') - Len(libraryItems)]
  /\ UNCHANGED session
  /\ Rendered

\* every promise the handler awaits has resolved
Succeed(isLive, at, r) ==
  IF RenderThrows(isLive, r) THEN RenderCrash(r) ELSE
  /\ DropReq(isLive, at)
  /\ IF isLive /\ r.kind \in ImageKinds
     THEN image' = ImageTryFinally(image, r) /\ UNCHANGED <<video, audio>>
     ELSE IF isLive
     THEN video' = VideoTryFinally(video, r, BlobUrl(session)) /\ UNCHANGED <<image, audio>>
     ELSE UNCHANGED <<image, video, audio>>
  /\ \E now \in Now(r), failing \in Failing({"library"}) :
       Commit(handleSaveToLibrary(libraryItems, SavedItem(r), now),
              subscriptionTier, settings, {"library"}, failing)
  /\ toasts' = AddToasts(toasts, SuccessToasts(r))
  /\ event' = [what |-> "resolve", req |-> r, live |-> isLive, msg |-> "",
               inflight |-> InFlight, ntoasts |-> Len(SuccessToasts(r)),
               nsaved |-> Len(libraryItems') - Len(libraryItems)]
  /\ UNCHANGED <<activeMode, session, showUpgradeModal>>
  /\ Rendered

(* ------------------- the steps of a request in flight ----------------- *)
Slots(isLive) == IF isLive THEN LiveKinds ELSE 1..Len(orphans)

\* what a returned operation object can look like
Operations == {[done |-> FALSE, link |-> FALSE], [done |-> TRUE, link |-> TRUE],
               [done |-> TRUE, link |-> FALSE]}

\* a poll loop that is never entered (sensitivity of C2)
NeverPollAgain(op) == FALSE

\* generateVideoInternal: the test of the poll loop
PollAgain(op) == ~op.done

\* a handler that awaits the video promise alone (sensitivity of C5)
ResumesOnVideo(r) == r.pc = "vdone"

\* Promise.all([videoPromise, audioPromise]) has resolved
HandlerResumes(r) == r.pc = "vdone" /\ r.audio \in {"none", "resolved"}

\* the request r once fileToBase64 has resolved: transformImage or
\* enhanceAudio is called; the video handler creates both promises
AfterFile(r) ==
  IF r.kind \in {"imgSubmit", "audEnhance"} THEN [r EXCEPT !.pc = "call"]
  ELSE [r EXCEPT !.pc = "gen", !.audio = AudioPromise(r.mood)]

\* fileToBase64 resolves
FileLoaded ==
  \E isLive \in BOOLEAN : \E at \in Slots(isLive) :
    LET r == ReqOf(isLive, at)
    IN  /\ r.pc = "file"
        /\ InnerStep(isLive, at, AfterFile(r))

\* generateVideos or getVideosOperation returns an operation object
OperationReturned(op) ==
  \E isLive \in BOOLEAN : \E at \in Slots(isLive) :
    LET r == [ReqOf(isLive, at) EXCEPT !.done = op.done]
    IN  /\ r.pc \in {"gen", "poll"}
        /\ IF PollAgain(op) THEN InnerStep(isLive, at, [r EXCEPT !.pc = "wait"])
           ELSE IF op.link THEN InnerStep(isLive, at, [r EXCEPT !.pc = "fetch"])
           ELSE Fail(isLive, at, [r EXCEPT !.pc = "throw"], NoLinkError)

\* the ten-second timer of the poll loop runs out: the next poll is sent
PollTimer ==
  \E isLive \in BOOLEAN : \E at \in Slots(isLive) :
    LET r == ReqOf(isLive, at)
    IN  /\ r.pc = "wait"
        /\ InnerStep(isLive, at, [r EXCEPT !.pc = "poll"])

\* fetch of the download link returns a response
FetchReturned(ok) ==
  \E isLive \in BOOLEAN : \E at \in Slots(isLive) :
    LET r == ReqOf(isLive, at)
    IN  /\ r.pc = "fetch"
        /\ IF ok THEN InnerStep(isLive, at, [r EXCEPT !.pc = "blob"])
           ELSE Fail(isLive, at, [r EXCEPT !.pc = "throw"], DownloadError)

\* videoResponse.blob() resolves: generateVideoInternal returns the object URL
BlobReturned ==
  \E isLive \in BOOLEAN : \E at \in Slots(isLive) :
    LET r == [ReqOf(isLive, at) EXCEPT !.pc = "vdone"]
    IN  /\ ReqOf(isLive, at).pc = "blob"
        /\ IF HandlerResumes(r) THEN Succeed(isLive, at, r)
           ELSE InnerStep(isLive, at, r)

\* the timer of generateSoundEffect runs out: the soundtrack promise resolves
AudioTimer ==
  \E isLive \in BOOLEAN : \E at \in Slots(isLive) :
    LET r == [ReqOf(isLive, at) EXCEPT !.audio = "resolved"]
    IN  /\ ReqOf(isLive, at).audio = "pending"
        /\ IF HandlerResumes(r) THEN Succeed(isLive, at, r)
           ELSE InnerStep(isLive, at, r)

\* an image call of the service resolves with an image; of the four calls
\* of a variations request any pending one, and Promise.all resolves with
\* the last of them
ImageReturned ==
  \E isLive \in BOOLEAN : \E at \in Slots(isLive) :
    LET r == ReqOf(isLive, at)
    IN  /\ r.kind \in ImageKinds
        /\ r.pc = "call"
        /\ IF r.kind = "imgVariations"
           THEN \E call \in PendingCalls(r) :
                  LET s == [r EXCEPT !.arrived = Append(@, call)]
                  IN  IF PendingCalls(s) # {} THEN InnerStep(isLive, at, s)
                      ELSE Succeed(isLive, at, s)
           ELSE Succeed(isLive, at, r)

\* a promise the request awaits rejects: fileToBase64, a service call, the
\* fetch or the blob read
CallRejected(reason) ==
  \E isLive \in BOOLEAN : \E at \in Slots(isLive) :
    LET r == ReqOf(isLive, at)
    IN  /\ r.pc \in {"file", "call", "gen", "poll", "fetch", "blob"}
        /\ ~(r.kind \in AudioKinds /\ r.pc = "call")
        /\ Fail(isLive, at, r, reason)

\* the try block and finally of the two AudioTools handlers after the await
AudioTryFinally(aud, r) ==
  IF r.kind = "audFx"
  THEN [aud EXCEPT !.generatedFx = "data:audio/wav", !.isGeneratingFx = FALSE]
  ELSE [aud EXCEPT !.enhancedAudio = "data:audio/wav", !.isEnhancing = FALSE]

\* the toast of an AudioTools handler that ran to the end of its try block
AudioToasts(r) ==
  <<[type |-> "success",
     message |-> IF r.kind = "audFx" THEN FxGeneratedMsg ELSE AudioEnhancedMsg]>>

\* the timer of generateSoundEffect or of enhanceAudio runs out for a request
\* of AudioTools: the promise resolves with the placeholder audio; these two
\* promises never reject, and nothing is saved to the library
AudioReturned ==
  \E isLive \in BOOLEAN : \E at \in Slots(isLive) :
    LET r == ReqOf(isLive, at)
    IN  /\ r.kind \in AudioKinds
        /\ r.pc = "call"
        /\ NoCommit
        /\ DropReq(isLive, at)
        /\ IF isLive
           THEN audio' = AudioTryFinally(audio, r)
           ELSE UNCHANGED audio
        /\ toasts' = AddToasts(toasts, AudioToasts(r))
        /\ event' = [what |-> "resolve", req |-> r, live |-> isLive, msg |-> "",
                     inflight |-> InFlight, ntoasts |-> Len(AudioToasts(r)),
                     nsaved |-> Len(libraryItems') - Len(libraryItems)]
        /\ UNCHANGED <<activeMode, session, showUpgradeModal, image, video>>
        /\ Rendered

(* ------------------- calls of the prompt builders -------------------- *)
\* what the user can have typed: one word, words with two spaces between
\* them, words on two lines
PromptTexts ==
  {<<Ch("a")>>, <<Ch("a"), SP, SP, Ch("b")>>, <<Ch("a"), NL, Ch("b")>>}

NegativeTexts == {<<>>, <<Ch("x")>>, <<Ch("x"), SP, SP, Ch("y")>>}

MaxPrompts == 2

PromptLists ==
  UNION {[1..n -> PromptTexts] : n \in 1..MaxPrompts}

Languages == {"english", "kinyarwanda"}

ImagePromptArgs ==
  [prompts : PromptLists, style : {"none", "pixel-art"},
   negativePrompt : NegativeTexts, language : Languages,
   persona : {"none", "photographer"}, styleIntensity : intensities]

VideoPromptArgs ==
  [prompt : PromptTexts, style : {"none", "cinematic"},
   negativePrompt : NegativeTexts, duration : {"short", "three-minute"},
   cameraMovement : {"none", "zoom-in"}, quality : DOMAIN videoQualities,
   language : Languages, framing : {"none", "close-up"},
   persona : {"none", "cinematographer"}, loop : BOOLEAN,
   aspectRatio : {"1:1", "16:9"}, fps : {24, 60},
   motionIntensity : {"balanced", "strong"},
   audioMood : {"none", "cinematic-tension"}]

\* the arguments of a call of a builder are given
PromptInit ==
  /\ MountedApp("IMAGE", <<>>, "free", defaultSettings)
  /\ \/ \E args \in ImagePromptArgs :
          built = [builder |-> "image", done |-> FALSE, args |-> args]
     \/ \E args \in VideoPromptArgs :
          built = [builder |-> "video", done |-> FALSE, args |-> args]

\* the call of constructImagePrompt returns
ImagePromptBuilt ==
  /\ built.builder = "image"
  /\ ~built.done
  /\ built' = [builder |-> "image", done |-> TRUE, args |-> built.args,
               text |-> constructImagePrompt(built.args.prompts, built.args.style,
                          built.args.negativePrompt, built.args.language,
                          built.args.persona, built.args.styleIntensity)]
  /\ UNCHANGED <<activeMode, libraryItems, subscriptionTier, toasts,
                 showUpgradeModal, settings, localStorage, console, storageFull,
                 session, image, video, audio, live, orphans, event, profile>>

\* the call of constructVideoPrompt returns
VideoPromptBuilt ==
  /\ built.builder = "video"
  /\ ~built.done
  /\ built' = [builder |-> "video", done |-> TRUE, args |-> built.args,
               text |-> constructVideoPrompt(built.args.prompt, built.args.style,
                          built.args.negativePrompt, built.args.duration,
                          built.args.cameraMovement, built.args.quality,
                          built.args.language, built.args.framing,
                          built.args.persona, built.args.loop,
                          built.args.aspectRatio, built.args.fps,
                          built.args.motionIntensity, built.args.audioMood)]
  /\ UNCHANGED <<activeMode, libraryItems, subscriptionTier, toasts,
                 showUpgradeModal, settings, localStorage, console, storageFull,
                 session, image, video, audio, live, orphans, event, profile>>

(* ------------------------------- Next --------------------------------- *)
Next ==
  \/ \E m \in Modes : SetActiveMode(m)
  \/ \E t \in Tiers : Subscribe(t)
  \/ \E i \in 1..MaxLib : DeleteItem(i)
  \/ ClearLibrary
  \/ \E th \in Themes : ThemeChange(th)
  \/ \E key \in {"generationComplete", "promotions"} : NotificationChange(key)
  \/ \E file \in SettingsFiles : ImportSettings(file)
  \/ \E i \in 1..MaxToasts : RemoveToast(i)
  \/ ImagePromptBuilt
  \/ VideoPromptBuilt
  \/ CloseUpgradeModal
  \/ ViewPremiumPlans
  \/ Reload
  \/ StorageFills
  \/ \E v \in {"", "p"} : ImgPromptChange(1, v)
  \/ \E m \in {"text-to-image", "image-transform"} : ImgSetMode(m)
  \/ \E valid \in BOOLEAN : ImgFileSelect(valid)
  \/ ImgReset
  \/ ImgAddPromptField
  \/ \E i \in 1..3 : ImgRemovePromptField(i)
  \/ ImgPickHistory("p")
  \/ \E size \in batchSizes : ImgSetBatchSize(size)
  \/ \E ratio \in DOMAIN aspectRatios : ImgSetAspectRatio(ratio)
  \/ \E p \in DOMAIN imagePersonas : ImgSetPersona(p)
  \/ \E i \in intensities : ImgSetStyleIntensity(i)
  \/ \E i \in intensities : ImgSetNegativeIntensity(i)
  \/ \E v \in Seeds : ImgSetSeed(v)
  \/ ImgSubmit
  \/ ImgEnhance
  \/ ImgVariations
  \/ \E v \in {"", "p"} : VidSetPrompt(v)
  \/ \E m \in {"text-to-video", "image-to-video"} : VidSetMode(m)
  \/ \E valid \in BOOLEAN : VidFileSelect(valid)
  \/ \E m \in AudioMoods : VidSetAudioMood(m)
  \/ \E p \in DOMAIN videoPersonas : VidSetPersona(p)
  \/ \E ratio \in DOMAIN aspectRatios : VidSetAspectRatio(ratio)
  \/ \E f \in DOMAIN videoFPSs : VidSetFps(f)
  \/ \E q \in DOMAIN videoQualities : VidSetQuality(q)
  \/ \E d \in DOMAIN videoDurations : VidSetDuration(d)
  \/ VidReset
  \/ VidSubmit
  \/ VidEnhance
  \/ \E m \in {"speech-to-text", "text-to-speech", "sound-fx", "audio-enhancement"} :
       AudSetMode(m)
  \/ \E v \in {"", "p"} : AudSetFxPrompt(v)
  \/ \E valid \in BOOLEAN : AudEnhancementFile(valid)
  \/ \E m \in DOMAIN enhancementModes : AudSetEnhancementMode(m)
  \/ AudGenerateFx
  \/ AudEnhanceAudio
  \/ AudioReturned
  \/ FileLoaded
  \/ \E op \in Operations : OperationReturned(op)
  \/ PollTimer
  \/ \E ok \in BOOLEAN : FetchReturned(ok)
  \/ BlobReturned
  \/ AudioTimer
  \/ ImageReturned
  \/ \E reason \in Rejections : CallRejected(reason)

Spec == Init /\ [][Next]_vars

(* ---------------------- the two generation tools ---------------------- *)
\* a returning user of any tier who works in the image and video tools and
\* looks at the library
ToolsInit == \E tier \in Tiers : Mounted("IMAGE", <<>>, tier, defaultSettings)

\* the steps of the requests in flight
RequestStep ==
  \/ FileLoaded
  \/ \E op \in Operations : OperationReturned(op)
  \/ PollTimer
  \/ \E ok \in BOOLEAN : FetchReturned(ok)
  \/ BlobReturned
  \/ AudioTimer
  \/ ImageReturned
  \/ \E reason \in Rejections : CallRejected(reason)

ToolsNext ==
  \/ \E m \in {"IMAGE", "VIDEO", "LIBRARY"} : SetActiveMode(m)
  \/ ImgPromptChange(1, "p")
  \/ ImgSetMode("image-transform")
  \/ ImgFileSelect(TRUE)
  \/ ImgSubmit
  \/ ImgEnhance
  \/ ImgVariations
  \/ VidSetPrompt("p")
  \/ VidSetAudioMood("epic")
  \/ VidSubmit
  \/ VidEnhance
  \/ RequestStep

ToolsSpec == ToolsInit /\ [][ToolsNext]_vars

(* ------------------------ the video generator ------------------------- *)
\* a returning user in the video generator
VideoToolInit ==
  \E tier \in {"free", "golden", "diamond"} :
    Mounted("VIDEO", <<>>, tier, defaultSettings)

\* the steps of a video request in flight
VideoRequestStep ==
  \/ FileLoaded
  \/ \E op \in Operations : OperationReturned(op)
  \/ PollTimer
  \/ \E ok \in BOOLEAN : FetchReturned(ok)
  \/ BlobReturned
  \/ AudioTimer
  \/ \E reason \in Rejections : CallRejected(reason)

VideoFormStep ==
  \/ VidSetPrompt("p")
  \/ \E m \in {"text-to-video", "image-to-video"} : VidSetMode(m)
  \/ VidFileSelect(TRUE)
  \/ \E m \in AudioMoods : VidSetAudioMood(m)
  \/ VidReset
  \/ VidSubmit
  \/ VidEnhance

VideoNext ==
  \/ \E m \in {"VIDEO", "LIBRARY"} : SetActiveMode(m)
  \/ VideoFormStep
  \/ VideoRequestStep

VideoSpec == VideoToolInit /\ [][VideoNext]_vars

\* the video generator stays mounted
MountedVideoNext ==
  \/ VideoFormStep
  \/ VideoRequestStep

\* a call the request awaits returns, either way
Returned ==
  \/ FileLoaded
  \/ \E op \in Operations : OperationReturned(op)
  \/ \E ok \in BOOLEAN : FetchReturned(ok)
  \/ BlobReturned
  \/ \E reason \in Rejections : CallRejected(reason)

\* the job is reported done
JobDone == \E op \in Operations : op.done /\ OperationReturned(op)

\* timers run out, every call returns, and the job is not reported as
\* unfinished for ever
FairVideoSpec ==
  /\ VideoToolInit
  /\ [][MountedVideoNext]_vars
  /\ WF_vars(PollTimer)
  /\ WF_vars(AudioTimer)
  /\ WF_vars(Returned)
  /\ SF_vars(JobDone)

(* ------------------------- App and its storage ------------------------ *)
\* the first visit; the user generates images, manages the library, the
\* plan and the settings, and reloads the page; the storage may fill up
StorageNext ==
  \/ \E m \in {"IMAGE", "LIBRARY", "SETTINGS", "PREMIUM"} : SetActiveMode(m)
  \/ Subscribe("diamond")
  \/ \E i \in 1..MaxLib : DeleteItem(i)
  \/ ClearLibrary
  \/ \E th \in {"studio-dark", "crimson"} : ThemeChange(th)
  \/ Reload
  \/ StorageFills
  \/ ImgPromptChange(1, "p")
  \/ ImgSubmit
  \/ ImageReturned

StorageSpec == Init /\ [][StorageNext]_vars

(* ------------------------- the library restored ----------------------- *)
\* the first visit; the user generates images and videos, looks at the
\* library and reloads the page; every storage write succeeds
RestoreNext ==
  \/ \E m \in {"IMAGE", "VIDEO", "LIBRARY"} : SetActiveMode(m)
  \/ \E i \in 1..MaxLib : DeleteItem(i)
  \/ Reload
  \/ ImgPromptChange(1, "p")
  \/ ImgSubmit
  \/ ImageReturned
  \/ VidSetPrompt("p")
  \/ VidSubmit
  \/ \E op \in Operations : OperationReturned(op)
  \/ PollTimer
  \/ \E ok \in BOOLEAN : FetchReturned(ok)
  \/ BlobReturned

RestoreSpec == Init /\ [][RestoreNext]_vars

(* --------------------------- the Profile view ------------------------- *)
\* the item of a stored library at place i from the end
StoredItem(type, i) ==
  [id |-> i, type |-> type,
   src |-> IF type = "IMAGE" THEN DataUrl ELSE BlobUrl(0), audioSrc |-> "absent",
   variations |-> NoVariations]

\* the libraries of up to MaxProfileLib items a page can load
StoredLibraries ==
  UNION {{[i \in 1..n |-> StoredItem(types[i], n - i)] :
            types \in [1..n -> {"IMAGE", "VIDEO"}]} : n \in 0..MaxProfileLib}

ProfileInit ==
  \E tier \in Tiers, lib \in StoredLibraries :
    Mounted("IMAGE", lib, tier, defaultSettings)

ProfileNext ==
  \/ \E m \in {"IMAGE", "LIBRARY", "PROFILE"} : SetActiveMode(m)
  \/ \E i \in 1..MaxProfileLib : DeleteItem(i)

ProfileSpec == ProfileInit /\ [][ProfileNext]_vars

(* ------------------------- text-to-image requests --------------------- *)
\* a user of any tier who sets seed, batch size and negative intensity,
\* generates images from text, stays or goes to the library meanwhile, and
\* loads the page again
TextToImageInit == \E tier \in Tiers : Mounted("IMAGE", <<>>, tier, defaultSettings)

TextToImageNext ==
  \/ ImgPromptChange(1, "p")
  \/ \E v \in Seeds : ImgSetSeed(v)
  \/ \E size \in batchSizes : ImgSetBatchSize(size)
  \/ \E i \in intensities : ImgSetNegativeIntensity(i)
  \/ CloseUpgradeModal
  \/ ImgSubmit
  \/ ImageReturned
  \/ SetActiveMode("LIBRARY")
  \/ SetActiveMode("IMAGE")
  \/ Reload

TextToImageSpec == TextToImageInit /\ [][TextToImageNext]_vars

(* --------------------- the notification setting ----------------------- *)
\* a user who starts image and video requests, visits Settings and switches
\* the Generation Complete notification while requests are in flight
NotifyNext ==
  \/ \E m \in {"IMAGE", "VIDEO", "SETTINGS"} : SetActiveMode(m)
  \/ NotificationChange("generationComplete")
  \/ RemoveToast(1)
  \/ ImgPromptChange(1, "p")
  \/ ImgSetMode("image-transform")
  \/ ImgFileSelect(TRUE)
  \/ ImgSubmit
  \/ FileLoaded
  \/ ImageReturned
  \/ VidSetPrompt("p")
  \/ VidSubmit
  \/ OperationReturned([done |-> TRUE, link |-> TRUE])
  \/ FetchReturned(TRUE)
  \/ BlobReturned

NotifySpec == Init /\ [][NotifyNext]_vars

(* ----------------------------- the settings -------------------------- *)
\* a user who changes theme and notifications in Settings, imports settings
\* files of every kind, and loads the page again
SettingsNext ==
  \/ \E m \in {"IMAGE", "SETTINGS"} : SetActiveMode(m)
  \/ \E th \in Themes : ThemeChange(th)
  \/ \E key \in {"generationComplete", "promotions"} : NotificationChange(key)
  \/ \E file \in SettingsFiles : ImportSettings(file)
  \/ RemoveToast(1)
  \/ Reload

SettingsSpec == Init /\ [][SettingsNext]_vars

(* ------------------------ the prompt builders ------------------------ *)
PromptNext == ImagePromptBuilt \/ VideoPromptBuilt

PromptSpec == PromptInit /\ [][PromptNext]_vars

(* ----------------------- the forms of the two tools ------------------ *)
\* a returning user of any tier who fills in the forms of the two tools,
\* meets the upgrade modal and changes the plan
FormInit == \E tier \in Tiers : Mounted("IMAGE", <<>>, tier, defaultSettings)

ImageFormStep ==
  \/ ImgSetMode("image-transform")
  \/ ImgSetMode("text-to-image")
  \/ ImgReset
  \/ ImgAddPromptField
  \/ ImgRemovePromptField(1)
  \/ ImgPickHistory("p")
  \/ \E size \in batchSizes : ImgSetBatchSize(size)
  \/ \E ratio \in {"1:1", "16:9"} : ImgSetAspectRatio(ratio)
  \/ \E p \in DOMAIN imagePersonas : ImgSetPersona(p)
  \/ \E i \in intensities : ImgSetStyleIntensity(i)
  \/ \E i \in intensities : ImgSetNegativeIntensity(i)
  \/ \E v \in Seeds : ImgSetSeed(v)

VideoGatedStep ==
  \/ \E m \in AudioMoods : VidSetAudioMood(m)
  \/ \E p \in DOMAIN videoPersonas : VidSetPersona(p)
  \/ \E ratio \in DOMAIN aspectRatios : VidSetAspectRatio(ratio)
  \/ \E f \in DOMAIN videoFPSs : VidSetFps(f)
  \/ \E q \in DOMAIN videoQualities : VidSetQuality(q)
  \/ \E d \in DOMAIN videoDurations : VidSetDuration(d)
  \/ VidReset

FormNext ==
  \/ \E m \in {"IMAGE", "VIDEO"} : SetActiveMode(m)
  \/ CloseUpgradeModal
  \/ ViewPremiumPlans
  \/ \E tier \in Tiers : Subscribe(tier)
  \/ ImageFormStep
  \/ VideoGatedStep

FormSpec == FormInit /\ [][FormNext]_vars

(* ------------------------ the premium services ----------------------- *)
\* a returning user of any tier who works in one of the three tools, uses
\* its premium features, and then changes the plan on the Premium page while
\* the requests in flight go on; no call fails
PremiumInit ==
  \E tier \in Tiers, mode \in {"IMAGE", "VIDEO", "AUDIO"} :
    Mounted(mode, <<>>, tier, defaultSettings)

PremiumNext ==
  \/ SetActiveMode("PREMIUM")
  \/ \E tier \in Tiers : Subscribe(tier)
  \/ ImgSetMode("image-transform")
  \/ ImgFileSelect(TRUE)
  \/ ImgPromptChange(1, "p")
  \/ ImgSubmit
  \/ ImgEnhance
  \/ ImgVariations
  \/ VidSetPrompt("p")
  \/ VidSetMode("image-to-video")
  \/ VidFileSelect(TRUE)
  \/ VidSetAudioMood("epic")
  \/ VidSubmit
  \/ VidEnhance
  \/ \E m \in {"sound-fx", "audio-enhancement"} : AudSetMode(m)
  \/ AudSetFxPrompt("p")
  \/ AudEnhancementFile(TRUE)
  \/ \E m \in DOMAIN enhancementModes : AudSetEnhancementMode(m)
  \/ AudGenerateFx
  \/ AudEnhanceAudio
  \/ AudioReturned
  \/ FileLoaded
  \/ OperationReturned([done |-> TRUE, link |-> TRUE])
  \/ FetchReturned(TRUE)
  \/ BlobReturned
  \/ AudioTimer
  \/ ImageReturned

PremiumSpec == PremiumInit /\ [][PremiumNext]_vars

(* ============================== claims ================================ *)
\* every request in flight, mounted or not
Requests == {live[k] : k \in LiveKinds} \cup {orphans[i] : i \in 1..Len(orphans)}

\* the busy flag the handler of a kind holds while its request is in flight
Busy(kind) ==
  IF kind = "imgSubmit" THEN image.isLoading
  ELSE IF kind = "imgEnhance" THEN image.isEnhancing
  ELSE IF kind = "imgVariations" THEN image.isGeneratingVariations
  ELSE IF kind = "vidSubmit" THEN video.isLoading
  ELSE video.isEnhancing

\* the error message the component of a handler displays
ShownError(kind) == IF kind \in ImageKinds THEN image.error ELSE video.error

\* C1: when the promise a service-calling handler awaits rejects, the
\* handler catches it: exactly one toast is added and it is an error toast
\* with the message of the rejection, no library item is added, and a
\* handler whose component is still mounted sets the component's error
\* message and resets its busy flag.
C1_RejectionCaught ==
  event.what = "reject" =>
    /\ event.ntoasts = 1
    /\ toasts # <<>>
    /\ Last(toasts) = [type |-> "error", message |-> event.msg]
    /\ event.nsaved = 0
    /\ event.live =>
         /\ ShownError(event.req.kind) = event.msg
         /\ ~Busy(event.req.kind)

\* C1 witness: one of the four variation calls rejects after another has
\* resolved, with ImageTools still mounted
C1_Witness ==
  /\ event.what = "reject"
  /\ event.live
  /\ event.req.kind = "imgVariations"
  /\ event.req.arrived # <<>>

\* C2: generateVideoInternal reads the outcome only of a finished job: a
\* request that fetches the link, reads the blob or has returned the URL
\* holds an operation with done = TRUE, and a handler resumes with a URL,
\* or with the no-valid-link or the download failure, only then.
C2_OutcomeReadAfterDone ==
  /\ \A r \in Requests : r.pc \in {"fetch", "blob", "vdone"} => r.done
  /\ ( /\ event.req.kind \in VideoKinds
       /\ \/ event.what = "resolve"
          \/ event.msg \in {NoLinkError, DownloadError} )
     => event.req.done

\* C2 witness: a video request is past the poll loop and fetches the link
C2_Witness ==
  \E r \in Requests : r.kind = "vidSubmit" /\ r.pc = "fetch" /\ r.done

\* C3: if timers run out, every call returns and the job is eventually
\* reported done, a video request of the mounted VideoGenerator eventually
\* ends and leaves isLoading false.
C3_VideoGenerationTerminates ==
  /\ (live["vidSubmit"] # NoReq) ~> (live["vidSubmit"] = NoReq /\ ~video.isLoading)
  /\ (live["vidEnhance"] # NoReq) ~> (live["vidEnhance"] = NoReq /\ ~video.isLoading)

\* C3 witness: handleSubmit has resumed with the video and left isLoading
\* false
C3_Witness ==
  /\ event.what = "resolve"
  /\ event.req.kind = "vidSubmit"
  /\ event.live
  /\ ~video.isLoading
  /\ live["vidSubmit"] = NoReq

\* C4: nothing is retried: the continuation that sees a rejection ends its
\* request (one request fewer is in flight, and the handler's slot is
\* free), so a failing poll ends the poll loop, and the failure is the
\* toast shown.
C4_NoRetry ==
  event.what = "reject" =>
    /\ InFlight = event.inflight - 1
    /\ event.live => live[event.req.kind] = NoReq
    /\ toasts # <<>>
    /\ Last(toasts).message = event.msg

\* C4 witness: a poll of the operation fails
C4_Witness == event.what = "reject" /\ event.req.pc = "poll"

\* C5: handleSubmit of VideoGenerator creates the soundtrack promise with
\* the video promise (a pending one when an audio mood is selected);
\* while the request is in flight no video or soundtrack is displayed; the
\* handler displays and saves only when the video has been returned and
\* the soundtrack has resolved; on a rejection it displays and saves
\* nothing and shows one error.
C5_VideoWithSoundtrack ==
  /\ \A r \in Requests :
       r.kind = "vidSubmit" =>
         /\ r.pc = "file" <=> r.audio = "idle"
         /\ (r.pc # "file" /\ r.mood # "none") => r.audio \in {"pending", "resolved"}
  /\ live["vidSubmit"] # NoReq =>
       video.generatedVideo = Null /\ video.generatedAudio = "null"
  /\ (event.what = "resolve" /\ event.req.kind = "vidSubmit") =>
       /\ event.req.pc = "vdone"
       /\ event.req.audio = IF event.req.mood # "none" THEN "resolved" ELSE "none"
       /\ libraryItems[1].audioSrc =
            IF event.req.mood # "none" THEN "data:audio/wav" ELSE "undefined"
  /\ (event.what = "reject" /\ event.req.kind = "vidSubmit") =>
       /\ event.nsaved = 0
       /\ event.ntoasts = 1
       /\ event.live => video.generatedVideo = Null /\ video.generatedAudio = "null"

\* C5 witness: a video with a soundtrack has been displayed and saved
C5_Witness ==
  /\ event.what = "resolve"
  /\ event.req.kind = "vidSubmit"
  /\ event.req.mood # "none"
  /\ event.live
  /\ video.generatedVideo # Null
  /\ video.generatedAudio # "null"

\* C6: a request whose component has been unmounted is cancelled: when it
\* completes, its handler adds no library item and no toast.
C6_UnmountCancels ==
  (event.what # "none" /\ ~event.live) => (event.ntoasts = 0 /\ event.nsaved = 0)

\* the JSON text each key holds when it mirrors the state of App
Mirror ==
  [library |-> JsonLibrary(libraryItems), tier |-> subscriptionTier,
   settings |-> settings]

\* C7: after the persistence effects have run, each of the three keys whose
\* writes have all succeeded on this page holds the serialised in-memory
\* value.
C7_StorageMirrorsState ==
  \A k \in StorageKeys : k \notin console => localStorage[k] = Mirror[k]

\* C7 witness: a library item, a subscription and a theme have been stored
C7_Witness ==
  /\ console = {}
  /\ libraryItems # <<>>
  /\ subscriptionTier # "free"
  /\ settings # defaultSettings
  /\ localStorage = Mirror

\* C8: a failed write to local storage is surfaced as an error toast in
\* the step in which it fails.
C8_WriteFailureShown ==
  [][(console' \ console # {}) =>
       (toasts' # <<>> /\ Last(toasts').type = "error")]_vars

\* C9: every library item refers to media that can be displayed in the
\* current page load, restored items included.
C9_RestoredMediaAvailable ==
  \A i \in 1..Len(libraryItems) : MediaAvailable(libraryItems[i].src, session)

\* the number of library items of a type
ItemsOfType(t) ==
  Cardinality({i \in 1..Len(libraryItems) : libraryItems[i].type = t})

\* the usage card for value items against limit: the bar is the whole
\* percent of the limit used, full from the limit on
UsageCard(value, limit) ==
  [value |-> value, limit |-> limit,
   width |-> IF value >= limit THEN 100 ELSE (value * 100) \div limit]

\* C10: the Profile view shows the number of IMAGE items and of VIDEO items
\* against the limits of the current tier (free 50/5, silver 200/20, golden
\* 1000/100, diamond 5000/500), with a bar that never exceeds 100%.
C10_ProfileUsage ==
  activeMode = "PROFILE" =>
    LET limits ==
          [free    |-> <<FreeImageLimit, FreeVideoLimit>>,
           silver  |-> <<SilverImageLimit, SilverVideoLimit>>,
           golden  |-> <<GoldenImageLimit, GoldenVideoLimit>>,
           diamond |-> <<DiamondImageLimit, DiamondVideoLimit>>][subscriptionTier]
    IN  /\ profile.images = UsageCard(ItemsOfType("IMAGE"), limits[1])
        /\ profile.videos = UsageCard(ItemsOfType("VIDEO"), limits[2])
        /\ profile.images.width <= 100
        /\ profile.videos.width <= 100

\* C10 witness: a free user with more videos than the free limit
C10_Witness ==
  /\ activeMode = "PROFILE"
  /\ subscriptionTier = "free"
  /\ profile.videos.value > FreeVideoLimit
  /\ profile.videos.width = 100

\* what C11 says of one call handlePremiumFeature(requiredTier, action)
\* whose action sets a form field to value: before and after are the form,
\* set is the value of the field after the call
PremiumGate(requiredTier, before, after, set, value) ==
  IF tierLevels[subscriptionTier] < tierLevels[requiredTier]
  THEN after = before /\ showUpgradeModal'
  ELSE set = value /\ showUpgradeModal' = showUpgradeModal

\* C11: a call of handlePremiumFeature in either tool, with the tiers
\* ordered free < silver < golden < diamond: below the required tier the
\* action is not run (the form keeps its values) and the upgrade modal is
\* visible afterwards; otherwise the action has run (the field holds the new
\* value) and the visibility of the modal is unchanged.
C11_PremiumGate ==
  [][/\ \A p \in DOMAIN videoPersonas :
          VidSetPersona(p) =>
            PremiumGate(videoPersonas[p], video, video', video'.persona, p)
     /\ \A d \in DOMAIN videoDurations :
          VidSetDuration(d) =>
            PremiumGate(videoDurations[d], video, video', video'.duration, d)
     /\ \A f \in {30, 60} :
          VidSetFps(f) => PremiumGate("golden", video, video', video'.fps, f)
     /\ VidSetQuality("high") =>
          PremiumGate("golden", video, video', video'.quality, "high")
     /\ \A m \in AudioMoods :
          VidSetAudioMood(m) =>
            PremiumGate("golden", video, video', video'.audioMood, m)
     /\ \A ratio \in {"16:9", "9:16"} :
          /\ VidSetAspectRatio(ratio) =>
               PremiumGate("golden", video, video', video'.aspectRatio, ratio)
          /\ ImgSetAspectRatio(ratio) =>
               PremiumGate("golden", image, image', image'.aspectRatio, ratio)
     /\ \A p \in DOMAIN imagePersonas :
          ImgSetPersona(p) =>
            PremiumGate(imagePersonas[p], image, image', image'.persona, p)
     /\ \A size \in batchSizes :
          ImgSetBatchSize(size) =>
            PremiumGate("diamond", image, image', image'.batchSize, size)
     /\ \A i \in intensities :
          /\ ImgSetStyleIntensity(i) =>
               PremiumGate("golden", image, image', image'.styleIntensity, i)
          /\ ImgSetNegativeIntensity(i) =>
               PremiumGate("diamond", image, image', image'.negativeIntensity, i)
     /\ ImgAddPromptField =>
          PremiumGate("diamond", image, image', Len(image'.prompts),
                      Len(image.prompts) + 1)
    ]_vars

\* C11 witness: a golden user has set a premium aspect ratio in ImageTools
\* and has then been refused a larger batch: the modal is visible and the
\* batch size is still 1
C11_Witness ==
  /\ showUpgradeModal
  /\ subscriptionTier = "golden"
  /\ activeMode = "IMAGE"
  /\ image.aspectRatio = "16:9"
  /\ image.batchSize = 1

\* the user's tier is at or above tier
AtLeast(tier) == tierLevels[subscriptionTier] >= tierLevels[tier]

\* C12: no premium service request is issued for a user below the tier of
\* the feature: enhanceImage and enhanceVideo at diamond,
\* generateImageVariations at golden or above, generateSoundEffect (Sound FX
\* tab and video soundtrack) at golden or above, enhanceAudio at the tier of
\* the enhancement mode it is called with.
C12_PremiumRequestsGated ==
  [][/\ ImgEnhance => AtLeast("diamond")
     /\ VidEnhance => AtLeast("diamond")
     /\ ImgVariations => AtLeast("golden")
     /\ (AudGenerateFx /\ live'["audFx"] # NoReq) => AtLeast("golden")
     /\ (VidSubmit /\ video.mode = "text-to-video" /\ video.audioMood # "none")
          => AtLeast("golden")
     /\ \A isLive \in BOOLEAN : \A at \in Slots(isLive) :
          LET r == ReqOf(isLive, at)
          IN  (r.pc = "file" /\ InnerStep(isLive, at, AfterFile(r))) =>
                /\ (r.kind = "vidSubmit" /\ r.mood # "none") => AtLeast("golden")
                /\ r.kind = "audEnhance" => AtLeast(enhancementModes[r.mode])
    ]_vars

\* C13: whenever the VideoGenerator form is mounted (initially, after Reset
\* and after every control), the selected persona, duration, aspect ratio,
\* frame rate and quality are options whose required tier is at or below
\* the user's tier.
C13_VideoSettingsWithinTier ==
  activeMode = "VIDEO" =>
    /\ AtLeast(videoPersonas[video.persona])
    /\ AtLeast(videoDurations[video.duration])
    /\ AtLeast(aspectRatios[video.aspectRatio])
    /\ AtLeast(videoFPSs[video.fps])
    /\ AtLeast(videoQualities[video.quality])

C15_SavePrependsOne ==
  [][(event'.what = "resolve" /\ event'.req.kind \in ImageKinds \cup VideoKinds) =>
       /\ Len(libraryItems') = Len(libraryItems) + 1
       /\ Tail(libraryItems') = libraryItems
       /\ \A i \in 1..Len(libraryItems) : libraryItems'[1].id >= libraryItems[i].id
    ]_vars

\* C17: the seed of the generateImages request of a text-to-image submission
\* is the number entered in the Seed field, and is absent (undefined) when
\* the field is empty.
C17_SeedOfRequest ==
  [][(ImgSubmit /\ image.mode = "text-to-image") =>
       live'["imgSubmit"].sent.seed = SettingsSeed(image.seed)
    ]_vars

\* C18: a text-to-image generation with batch size n that succeeds asked the
\* model for n images; the first image is the src of the one item saved and
\* the other n-1 are its variations; in the mounted ImageTools the n images
\* are shown and the first is selected.
C18_BatchOfImages ==
  [][(/\ event'.what = "resolve"
      /\ event'.req.kind = "imgSubmit"
      /\ event'.req.mode = "text-to-image") =>
       /\ event'.req.sent.numberOfImages = event'.req.batch
       /\ Len(libraryItems') = Len(libraryItems) + 1
       /\ libraryItems'[1].src = DataUrl
       /\ libraryItems'[1].variations = ArrayOf(event'.req.batch - 1)
       /\ event'.live =>
            /\ activeMode' = "IMAGE"
            /\ Len(image'.generatedImages) = event'.req.batch
            /\ image'.selectedImage = image'.generatedImages[1]
    ]_vars

\* the toasts of its own that a handler adds after the save
OwnToasts(kind) ==
  IF kind \in {"imgEnhance", "imgVariations", "vidEnhance"} THEN 1 ELSE 0

\* C16: when a handler saves an item, the 'Saved to Library!' toast is added
\* if and only if settings.notifications.generationComplete is true at that
\* moment, whatever it was when the request was started.
C16_NotifySettingAtSave ==
  [][(event'.what = "resolve" /\ event'.nsaved = 1) =>
       (event'.ntoasts - OwnToasts(event'.req.kind) = 1
          <=> settings.notifications.generationComplete)
    ]_vars

\* C19: in every state, also after an import and after a page load, the
\* settings record has a theme and a notifications record whose fields are
\* exactly generationComplete and promotions, both boolean.
C19_SettingsWellFormed ==
  /\ "theme" \in DOMAIN settings
  /\ "notifications" \in DOMAIN settings
  /\ DOMAIN settings.notifications = {"generationComplete", "promotions"}
  /\ \A key \in DOMAIN settings.notifications : settings.notifications[key] \in BOOLEAN

\* the piece is in the text
Has(text, piece) == \E i \in 1..Len(text) : text[i] = piece

\* a phrase of the instruction named t is in the text
HasInstruction(text, t) == \E i \in 1..Len(text) : text[i].t = t

\* part is in the text, piece by piece
Contains(text, part) ==
  \E i \in 0..(Len(text) - Len(part)) : SubSeq(text, i + 1, i + Len(part)) = part

\* what the image builder has to deliver for the arguments a
ImagePromptOk(a, text) ==
  /\ Contains(text, personaInstructions(a.persona))
  /\ \A i \in 1..Len(a.prompts) : Contains(text, a.prompts[i])
  /\ Has(text, BlendInstruction) <=> Len(a.prompts) > 1
  /\ Len(a.prompts) > 1 =>
       \A i \in 1..Len(a.prompts) :
         Contains(text, <<Quote>> \o a.prompts[i] \o <<Quote>>)
  /\ HasInstruction(text, "The user is providing the prompt in Kinyarwanda")
       <=> a.language = "kinyarwanda"
  /\ IF a.style # "none"
     THEN /\ Has(text, Lit("Style:", ReplaceHyphen(a.style)))
          /\ Has(text, intensityMap(a.styleIntensity))
     ELSE /\ ~HasInstruction(text, "Style:")
          /\ ~HasInstruction(text, "Style Intensity:")
          /\ \A i \in intensities : ~Has(text, intensityMap(i))
  /\ IF a.negativePrompt # <<>>
     THEN Contains(text, <<Lit("Avoid the following:", ""), SP>> \o a.negativePrompt)
     ELSE ~HasInstruction(text, "Avoid the following:")

\* what the video builder has to deliver for the arguments a, prompt being
\* the form in which the user's prompt is to appear
VideoPromptOk(a, text, prompt) ==
  /\ Contains(text, personaInstructions(a.persona))
  /\ Contains(text, prompt)
  /\ Has(text, Lit("Duration Goal:", a.duration))
  /\ Has(text, Lit("Aspect Ratio: The final video must be in", a.aspectRatio))
  /\ Has(text, Lit("Frame Rate: The video must be rendered at", FpsText[a.fps]))
  /\ HasInstruction(text, "The user is providing the prompt in Kinyarwanda")
       <=> a.language = "kinyarwanda"
  /\ IF a.style # "none" THEN Has(text, Lit("Visual Style:", a.style))
     ELSE ~HasInstruction(text, "Visual Style:")
  /\ IF a.cameraMovement # "none"
     THEN Contains(text, <<Lit("Camera Movement: A", a.motionIntensity), SP,
                           Lit("movement", ReplaceHyphen(a.cameraMovement))>>)
     ELSE ~HasInstruction(text, "Camera Movement: A") /\ ~HasInstruction(text, "movement")
  /\ IF a.framing # "none"
     THEN Has(text, Lit("Shot Framing: Use a", ReplaceHyphen(a.framing)))
     ELSE ~HasInstruction(text, "Shot Framing: Use a")
  /\ HasInstruction(text, "Output Quality: Aim for 8K resolution") <=> a.quality = "high"
  /\ IF a.audioMood # "none"
     THEN Has(text, Lit("The overall mood of the scene should be appropriate for a soundtrack that is",
                        ReplaceHyphen(a.audioMood)))
     ELSE ~HasInstruction(text, "The overall mood of the scene should be appropriate for a soundtrack that is")
  /\ IF a.negativePrompt # <<>>
     THEN Contains(text, <<Lit("Crucially, avoid the following elements:", ""), SP>>
                           \o CollapseSpace(a.negativePrompt))
     ELSE ~HasInstruction(text, "Crucially, avoid the following elements:")
  /\ HasInstruction(text, "The video must be a perfect, seamless loop.") <=> a.loop

\* C20 as stated: the prompt a builder returns holds the persona
\* instruction and the user's prompt as typed (for video also duration,
\* aspect ratio and frame rate), and each optional instruction if and only
\* if its setting is not the default.
C20_PromptAsTyped ==
  built.done =>
    IF built.builder = "image" THEN ImagePromptOk(built.args, built.text)
    ELSE VideoPromptOk(built.args, built.text, built.args.prompt)

\* C20: the prompt a builder returns holds the persona instruction and the
\* user's prompt (for video also duration, aspect ratio and frame rate, and
\* the user's prompt with every run of white space turned into one space),
\* and each optional instruction if and only if its setting is not the
\* default.
C20_PromptBuilders ==
  built.done =>
    IF built.builder = "image" THEN ImagePromptOk(built.args, built.text)
    ELSE VideoPromptOk(built.args, built.text, CollapseSpace(built.args.prompt))

\* C20 witness: a video prompt built from a prompt typed on two lines, with
\* high quality, a camera movement, a negative prompt and the loop set; the
\* prompt as typed is not in the result
C20_Witness ==
  /\ built.done
  /\ built.builder = "video"
  /\ built.args.prompt = <<Ch("a"), NL, Ch("b")>>
  /\ built.args.quality = "high"
  /\ built.args.cameraMovement = "zoom-in"
  /\ built.args.negativePrompt # <<>>
  /\ built.args.loop
  /\ ~Contains(built.text, built.args.prompt)
  /\ Contains(built.text, <<Ch("a"), SP, Ch("b")>>)

\* the four images of a variations request, in the order of the calls
FourVariations == [call \in VariationCalls |-> transformImage(call)]

\* C21: generateImageVariations starts four transformImage calls before it
\* awaits any of them.  It resolves only when all four have resolved, with
\* the four images in the order of the calls whatever the order they
\* resolved in: the mounted ImageTools then displays the selected image
\* followed by them, and the item saved holds the four.  If one of the calls
\* rejects, nothing is saved and the variations, the displayed images and
\* the selected image are left as they were.  Variations appear in no other
\* step.
C21_VariationsAllOrNothing ==
  [][/\ ImgVariations => PendingCalls(live'["imgVariations"]) = VariationCalls
     /\ (event'.what = "resolve" /\ event'.req.kind = "imgVariations") =>
          /\ PendingCalls(event'.req) = {}
          /\ Len(event'.req.arrived) = VariationCount
          /\ libraryItems' = handleSaveToLibrary(libraryItems,
                               [type |-> "IMAGE", src |-> DataUrl,
                                audioSrc |-> "absent",
                                variations |-> ArrayOf(VariationCount)],
                               libraryItems'[1].id)
          /\ event'.live =>
               /\ image'.variations = FourVariations
               /\ image'.generatedImages = <<event'.req.sel>> \o FourVariations
     /\ (event'.what = "reject" /\ event'.req.kind = "imgVariations") =>
          /\ libraryItems' = libraryItems
          /\ image'.variations = image.variations
          /\ image'.generatedImages = image.generatedImages
          /\ image'.selectedImage = image.selectedImage
     /\ (image'.variations # image.variations /\ image'.variations # <<>>) =>
          /\ event'.what = "resolve"
          /\ event'.req.kind = "imgVariations"
    ]_vars

\* C21 witness: a variations request of the mounted ImageTools has resolved,
\* its fourth call first and its first call last, and the four images are
\* displayed in the order of the calls
C21_Witness ==
  /\ event.what = "resolve"
  /\ event.req.kind = "imgVariations"
  /\ event.live
  /\ event.req.arrived = <<4, 3, 2, 1>>
  /\ image.variations = <<"variation1", "variation2", "variation3", "variation4">>
  /\ Len(image.generatedImages) = VariationCount + 1

\* no two items of the library have the same id
DistinctIds(items) ==
  \A i, j \in 1..Len(items) : i # j => items[i].id # items[j].id

\* C22: the ids of the library items are pairwise distinct in every state,
\* and deleting the item shown in the Library removes that item alone: the
\* library afterwards is the library before without it, the other items in
\* the same order.
C22_DeleteRemovesOne ==
  [][/\ DistinctIds(libraryItems')
     /\ \A i \in 1..Len(libraryItems) :
          DeleteItem(i) => libraryItems' = RemoveAt(libraryItems, i)
    ]_vars

\* the requests of the mounted ImageTools that are in flight
ImageRequests == {kind \in ImageKinds : live[kind] # NoReq}

\* C23: at most one service request of the mounted ImageTools (generate or
\* transform, enhance, variations) is in flight at any time, and the
\* selected image is one of the images on display.
C23_OneImageRequest ==
  /\ Cardinality(ImageRequests) <= 1
  /\ (image.selectedImage # "null" /\ image.generatedImages # <<>>) =>
       \E i \in 1..Len(image.generatedImages) :
         image.generatedImages[i] = image.selectedImage

=============================================================================
